---- MODULE Spec2Model ----
(***************************************************************************)
(* Attendance-to-payment reconciliation engine of the MFC payment backend  *)
(* (src/src/services/attendanceVerificationService.ts) and the manual      *)
(* verification route that shares its ledger.                              *)
(*                                                                         *)
(* Text is kept as TLA+ strings over ASCII, read one character at a time   *)
(* with SubSeq.  Numbers of the sheets (money, percentages) are kept in    *)
(* hundredths, time in hours since 2024-03-01T00:00:00Z.                   *)
(***************************************************************************)
EXTENDS Integers, Sequences, FiniteSets, TLC

VARIABLES
    fin,        \* input of the pure function under check (a record)
    fout,       \* its output, NoResult before the function was applied
    sheets,     \* the spreadsheet: sheet name -> rows, in sheet order
    now,        \* the wall clock, in ticks
    pc,         \* where the verification run is
    run,        \* the local variables of the run
    last,       \* the run that returned before this one
    runs        \* number of runs started

funVars == <<fin, fout>>
engineVars == <<sheets, now, pc, run, last, runs>>
vars == <<fin, fout, sheets, now, pc, run, last, runs>>

NoResult == [none |-> TRUE]

\* no request was ever made: the state the pure-function specifications keep
EngineIdle ==
    /\ sheets = <<>>
    /\ now = 0
    /\ pc = "idle"
    /\ run = NoResult
    /\ last = NoResult
    /\ runs = 0

(***************************************************************************)
(* Strings                                                                 *)
(***************************************************************************)
Char(s, i) == SubSeq(s, i, i)

LowerLetters == {"a","b","c","d","e","f","g","h","i","j","k","l","m",
                 "n","o","p","q","r","s","t","u","v","w","x","y","z"}
UpperLetters == {"A","B","C","D","E","F","G","H","I","J","K","L","M",
                 "N","O","P","Q","R","S","T","U","V","W","X","Y","Z"}
Digits == {"0","1","2","3","4","5","6","7","8","9"}
Whitespace == {" ", "\t"}

UpperSeq == "ABCDEFGHIJKLMNOPQRSTUVWXYZ"
LowerSeq == "abcdefghijklmnopqrstuvwxyz"

\* String.prototype.toLowerCase, one character
LowerChar(c) ==
    IF c \in UpperLetters
    THEN Char(LowerSeq, CHOOSE i \in 1..26 : Char(UpperSeq, i) = c)
    ELSE c

RECURSIVE LowerFrom(_, _)
LowerFrom(s, i) ==
    IF i > Len(s) THEN "" ELSE LowerChar(Char(s, i)) \o LowerFrom(s, i + 1)

toLowerCase(s) == LowerFrom(s, 1)

\* /\s+/g -> ' '
RECURSIVE CollapseWs(_, _)
CollapseWs(s, i) ==
    IF i > Len(s) THEN ""
    ELSE IF Char(s, i) \in Whitespace
         THEN IF i < Len(s) /\ Char(s, i + 1) \in Whitespace
              THEN CollapseWs(s, i + 1)
              ELSE " " \o CollapseWs(s, i + 1)
         ELSE Char(s, i) \o CollapseWs(s, i + 1)

\* first position >= i that holds no whitespace (\s* is greedy)
RECURSIVE SkipWs(_, _)
SkipWs(s, i) ==
    IF i <= Len(s) /\ Char(s, i) \in Whitespace THEN SkipWs(s, i + 1) ELSE i

\* last position <= i that holds no whitespace
RECURSIVE SkipWsBack(_, _)
SkipWsBack(s, i) ==
    IF i >= 1 /\ Char(s, i) \in Whitespace THEN SkipWsBack(s, i - 1) ELSE i

\* String.prototype.trim
Trim(s) == SubSeq(s, SkipWs(s, 1), SkipWsBack(s, Len(s)))

\* does the literal w occur in s at position i
HasAt(s, i, w) ==
    /\ i >= 1
    /\ i + Len(w) - 1 <= Len(s)
    /\ SubSeq(s, i, i + Len(w) - 1) = w

\* /pack(s)?/
MatchPack(s, i) ==
    IF HasAt(s, i, "packs") THEN 5
    ELSE IF HasAt(s, i, "pack") THEN 4 ELSE 0

\* /per\s*week/
MatchPerWeek(s, i) ==
    IF HasAt(s, i, "per")
    THEN IF HasAt(s, SkipWs(s, i + 3), "week") THEN SkipWs(s, i + 3) + 4 - i ELSE 0
    ELSE 0

\* /x\s*(per\s*)?week/
MatchXWeek(s, i) ==
    IF HasAt(s, i, "x")
    THEN IF MatchPerWeek(s, SkipWs(s, i + 1)) > 0
         THEN SkipWs(s, i + 1) + MatchPerWeek(s, SkipWs(s, i + 1)) - i
         ELSE IF HasAt(s, SkipWs(s, i + 1), "week") THEN SkipWs(s, i + 1) + 4 - i
         ELSE 0
    ELSE 0

\* /monthly|month(ly)?/
MatchMonth(s, i) ==
    IF HasAt(s, i, "monthly") THEN 7
    ELSE IF HasAt(s, i, "month") THEN 5 ELSE 0

\* /single\s*(session)?|payg|day\s*pass/
MatchSingle(s, i) ==
    IF HasAt(s, i, "single")
    THEN IF HasAt(s, SkipWs(s, i + 6), "session")
         THEN SkipWs(s, i + 6) + 7 - i
         ELSE SkipWs(s, i + 6) - i
    ELSE IF HasAt(s, i, "payg") THEN 4
    ELSE IF HasAt(s, i, "day")
         THEN IF HasAt(s, SkipWs(s, i + 3), "pass") THEN SkipWs(s, i + 3) + 4 - i ELSE 0
    ELSE 0

\* /adult|junior|youth|plan|loyalty|only/
MatchNoise(s, i) ==
    IF HasAt(s, i, "adult") THEN 5
    ELSE IF HasAt(s, i, "junior") THEN 6
    ELSE IF HasAt(s, i, "youth") THEN 5
    ELSE IF HasAt(s, i, "plan") THEN 4
    ELSE IF HasAt(s, i, "loyalty") THEN 7
    ELSE IF HasAt(s, i, "only") THEN 4
    ELSE 0

\* /[^a-z0-9\s]/g -> ' ', one character
CleanChar(c) == IF c \in LowerLetters \cup Digits \cup Whitespace THEN c ELSE " "

RECURSIVE CleanFrom(_, _)
CleanFrom(s, i) ==
    IF i > Len(s) THEN "" ELSE CleanChar(Char(s, i)) \o CleanFrom(s, i + 1)

\* the cleaning without the change to lower case
CleanTextKeepingCase(s) == Trim(CollapseWs(CleanFrom(s, 1), 1))

\* the first statements of canonicalize: lower-case, strip, collapse, trim
\* (over ASCII, normalize('NFD') followed by the removal of the combining
\* marks leaves the text as it is)
CleanText(s) == Trim(CollapseWs(CleanFrom(toLowerCase(s), 1), 1))

\* the length of the match of expression re at position i of s, 0 when it
\* does not match there
MatchAt(re, s, i) ==
    CASE re = "pack" -> MatchPack(s, i)
      [] re = "xweek" -> MatchXWeek(s, i)
      [] re = "perweek" -> MatchPerWeek(s, i)
      [] re = "month" -> MatchMonth(s, i)
      [] re = "single" -> MatchSingle(s, i)
      [] re = "noise" -> MatchNoise(s, i)

\* String.prototype.replace(/re/g, rep)
RECURSIVE ReplaceAll(_, _, _, _)
ReplaceAll(s, i, re, rep) ==
    IF i > Len(s) THEN ""
    ELSE IF MatchAt(re, s, i) > 0
         THEN rep \o ReplaceAll(s, i + MatchAt(re, s, i), re, rep)
         ELSE Char(s, i) \o ReplaceAll(s, i + 1, re, rep)

\* the chain of synonym replacements, in the order of the source
SynonymsNoise(s) == Trim(CollapseWs(ReplaceAll(s, 1, "noise", " "), 1))
SynonymsSingle(s) == SynonymsNoise(ReplaceAll(s, 1, "single", "single"))
SynonymsMonth(s) == SynonymsSingle(ReplaceAll(s, 1, "month", "monthly"))
SynonymsPerWeek(s) == SynonymsMonth(ReplaceAll(s, 1, "perweek", "xweek"))
SynonymsXWeek(s) == SynonymsPerWeek(ReplaceAll(s, 1, "xweek", "xweek"))
Synonyms(s) == SynonymsXWeek(ReplaceAll(s, 1, "pack", "pack"))

canonicalize(value) == Synonyms(CleanText(value))

(***************************************************************************)
(* Rows of a sheet are functions from column header to cell.  A missing    *)
(* column reads as undefined in the source; in an `a || b || ''` chain     *)
(* undefined, '' and 0 all fall through, so a missing text cell reads as   *)
(* "" and a missing number cell as 0.                                      *)
(***************************************************************************)
GetS(row, k) == IF k \in DOMAIN row THEN row[k] ELSE ""
GetN(row, k) == IF k \in DOMAIN row THEN row[k] ELSE 0

\* a || b on texts and on numbers
OrS(a, b) == IF a /= "" THEN a ELSE b
OrN(a, b) == IF a /= 0 THEN a ELSE b

\* /[^a-zA-Z0-9_]/g -> '_', one character
KeyChar(c) ==
    IF c \in LowerLetters \cup UpperLetters \cup Digits \cup {"_"} THEN c ELSE "_"

RECURSIVE KeyFrom(_, _)
KeyFrom(s, i) ==
    IF i > Len(s) THEN "" ELSE KeyChar(Char(s, i)) \o KeyFrom(s, i + 1)

\* the four parts of the key, as generateUniqueKey reads them
KeyDate(attendance) == OrS(GetS(attendance, "Event Starts At"), GetS(attendance, "Date"))
KeyCustomer(attendance) == GetS(attendance, "Customer")
KeyMembership(attendance) == GetS(attendance, "Membership Name")
KeyInstructors(attendance) == GetS(attendance, "Instructors")

\* a key that joins the four parts without the separator
KeyWithoutSeparators(attendance) ==
    KeyFrom(KeyDate(attendance) \o KeyCustomer(attendance)
            \o KeyMembership(attendance) \o KeyInstructors(attendance), 1)

generateUniqueKey(attendance) ==
    KeyFrom(KeyDate(attendance) \o "_" \o KeyCustomer(attendance) \o "_"
            \o KeyMembership(attendance) \o "_" \o KeyInstructors(attendance), 1)

(***************************************************************************)
(* Similarity: token sets, Jaccard index, containment.  A score is the     *)
(* exact fraction [n, d]; with at most three tokens per text the double    *)
(* arithmetic of the source orders these values as the fractions do.       *)
(***************************************************************************)
Frac(n, d) == [n |-> n, d |-> d]
FracGt(x, y) == x.n * y.d > y.n * x.d
FracGe(x, y) == x.n * y.d >= y.n * x.d
FracAdd(x, y) == Frac(x.n * y.d + y.n * x.d, x.d * y.d)
FracMax(x, y) == IF FracGt(y, x) THEN y ELSE x
FracTimes(x, y) == Frac(x.n * y.n, x.d * y.d)

\* String.prototype.split(' ').filter(Boolean) as a set
RECURSIVE SplitWords(_, _, _)
SplitWords(s, i, word) ==
    IF i > Len(s) THEN (IF word = "" THEN {} ELSE {word})
    ELSE IF Char(s, i) = " "
         THEN (IF word = "" THEN {} ELSE {word}) \cup SplitWords(s, i + 1, "")
         ELSE SplitWords(s, i + 1, word \o Char(s, i))

tokenize(value) == SplitWords(canonicalize(value), 1, "")

jaccard(a, b) ==
    IF a = {} /\ b = {} THEN Frac(1, 1)
    ELSE LET inter == Cardinality(a \cap b)
             union == Cardinality(a) + Cardinality(b) - inter
         IN  IF union = 0 THEN Frac(0, 1) ELSE Frac(inter, union)

\* String.prototype.includes
Includes(s, t) == \E i \in 1..(Len(s) + 1) : HasAt(s, i, t)

\* a.includes(b) || b.includes(a)
IncludesEither(ca, cb) == Includes(ca, cb) \/ Includes(cb, ca)

fuzzyContains(a, b) == IncludesEither(canonicalize(a), canonicalize(b))

\* String(x || '').trim()
TrimS(s) == Trim(s)

(***************************************************************************)
(* Rule resolver.  Rules are the normalized rules; the result is the       *)
(* position of the rule in the list, 0 for null.                           *)
(***************************************************************************)
NoRule == 0

\* Array.prototype.find / findIndex: the first of the positions that satisfy
\* the test, 0 when there is none
FirstIndex(positions) ==
    IF positions = {} THEN 0
    ELSE CHOOSE i \in positions : \A j \in positions : i <= j

\* the score of one rule in the fuzzy loop of findMatchingRule; memTokens is
\* tokenize(canonMembership), computed once before the loop
RuleScore(r, membershipName, memTokens) ==
    LET attendanceAlias == TrimS(r.attendance_alias)
        packageName == TrimS(r.package_name)
    IN  IF attendanceAlias /= ""
        THEN IF fuzzyContains(attendanceAlias, membershipName)
             THEN Frac(2, 1)
             ELSE FracTimes(jaccard(memTokens, tokenize(attendanceAlias)), Frac(3, 2))
        ELSE IF packageName /= ""
        THEN IF fuzzyContains(packageName, membershipName)
             THEN Frac(3, 2)
             ELSE jaccard(memTokens, tokenize(packageName))
        ELSE Frac(0, 1)

\* the test of the fuzzy loop with `score >= best.score`: the last of equal
\* scores wins
BetterRuleLastWins(best, i, score) ==
    IF FracGt(score, Frac(0, 1)) /\ (best.r = 0 \/ FracGe(score, best.score))
    THEN [r |-> i, score |-> score]
    ELSE best

\* `if (score > 0 && (!best || score > best.score)) best = { r, score }`:
\* best is [r, score], r = 0 while best is null
BetterRule(best, i, score) ==
    IF FracGt(score, Frac(0, 1)) /\ (best.r = 0 \/ FracGt(score, best.score))
    THEN [r |-> i, score |-> score]
    ELSE best

\* the fuzzy loop over the rules of the session type
RECURSIVE FuzzyBest(_, _, _, _, _, _)
FuzzyBest(rules, membershipName, memTokens, sessionType, i, best) ==
    IF i > Len(rules) THEN best
    ELSE IF rules[i].session_type /= sessionType
    THEN FuzzyBest(rules, membershipName, memTokens, sessionType, i + 1, best)
    ELSE FuzzyBest(rules, membershipName, memTokens, sessionType, i + 1,
                   BetterRule(best, i, RuleScore(rules[i], membershipName, memTokens)))

\* the exact alias, the exact package, the fuzzy match at 0.5 or more, the
\* default rule of the session type, in this order
PickRule(rules, sessionType, exactAlias, exactPackage, best) ==
    IF exactAlias /= 0 THEN exactAlias
    ELSE IF exactPackage /= 0 THEN exactPackage
    ELSE IF best.r /= 0 /\ FracGe(best.score, Frac(1, 2)) THEN best.r
    ELSE FirstIndex({ i \in 1..Len(rules) :
                        rules[i].package_name = "" /\ rules[i].session_type = sessionType })

\* the candidates of the three matching steps for the canonical membership
ResolveRule(rules, membershipName, canonMembership, sessionType) ==
    PickRule(rules, sessionType,
             FirstIndex({ i \in 1..Len(rules) :
                            /\ rules[i].session_type = sessionType
                            /\ TrimS(rules[i].attendance_alias) /= ""
                            /\ canonicalize(TrimS(rules[i].attendance_alias)) = canonMembership }),
             FirstIndex({ i \in 1..Len(rules) :
                            /\ rules[i].session_type = sessionType
                            /\ TrimS(rules[i].package_name) /= ""
                            /\ canonicalize(TrimS(rules[i].package_name)) = canonMembership }),
             FuzzyBest(rules, membershipName, tokenize(canonMembership),
                       sessionType, 1, [r |-> 0, score |-> Frac(0, 1)]))

findMatchingRule(membershipName, sessionType, rules) ==
    IF Len(rules) = 0 THEN NoRule
    ELSE ResolveRule(rules, membershipName, canonicalize(membershipName), sessionType)

(***************************************************************************)
(* Dates.  The model reads the two ISO forms its tables hold,              *)
(* 2024-03-DD and 2024-03-DDTHH:00:00Z, as hours since                     *)
(* 2024-03-01T00:00:00Z; every other text of the tables ("" and "n/a") is  *)
(* an invalid date.  The server's time zone is taken to be UTC.            *)
(***************************************************************************)
NoDate == -1
HoursPerDay == 24

DigitSeq == "0123456789"
IsDigits(s) == \A i \in 1..Len(s) : Char(s, i) \in Digits
DigitVal(c) == (CHOOSE i \in 1..10 : Char(DigitSeq, i) = c) - 1
TwoDigits(s) == 10 * DigitVal(Char(s, 1)) + DigitVal(Char(s, 2))

parseDate(dateStr) ==
    IF /\ Len(dateStr) \in {10, 20}
       /\ SubSeq(dateStr, 1, 8) = "2024-03-"
       /\ IsDigits(SubSeq(dateStr, 9, 10))
       /\ TwoDigits(SubSeq(dateStr, 9, 10)) \in 1..31
    THEN IF Len(dateStr) = 10
         THEN (TwoDigits(SubSeq(dateStr, 9, 10)) - 1) * HoursPerDay
         ELSE IF /\ Char(dateStr, 11) = "T"
                 /\ IsDigits(SubSeq(dateStr, 12, 13))
                 /\ TwoDigits(SubSeq(dateStr, 12, 13)) \in 0..23
                 /\ SubSeq(dateStr, 14, 20) = ":00:00Z"
              THEN (TwoDigits(SubSeq(dateStr, 9, 10)) - 1) * HoursPerDay
                   + TwoDigits(SubSeq(dateStr, 12, 13))
              ELSE NoDate
    ELSE NoDate

\* Date.prototype.toDateString of the two dates agree
isSameDate(date1, date2) == date1 \div HoursPerDay = date2 \div HoursPerDay

Abs(x) == IF x < 0 THEN -x ELSE x
CeilDiv(a, b) == (a + b - 1) \div b

isWithinDays(date1, date2, days) == CeilDiv(Abs(date1 - date2), HoursPerDay) <= days

normalizeCustomerName(name) == Trim(toLowerCase(name))
normalizeMembershipName(name) == Trim(toLowerCase(name))

classifySessionType(offeringType) ==
    IF \/ Includes(toLowerCase(offeringType), "private")
       \/ Includes(toLowerCase(offeringType), "1 to 1")
       \/ Includes(toLowerCase(offeringType), "1-to-1")
    THEN "private"
    ELSE "group"

(***************************************************************************)
(* Payment matcher.  The result is the position of the payment in the      *)
(* list, 0 for null.                                                       *)
(***************************************************************************)
NoPayment == 0
MatchWindowDays == 7

\* the non-empty payment_memo_alias of the rules of the session type
paymentAliasesOf(rules, sessionType) ==
    { TrimS(rules[i].payment_memo_alias) :
        i \in { j \in 1..Len(rules) : /\ rules[j].session_type = sessionType
                                      /\ TrimS(rules[j].payment_memo_alias) /= "" } }

\* textScore of one payment memo
TextScore(memo, paymentAliases, membershipName, memTokens) ==
    IF \E alias \in paymentAliases : canonicalize(alias) = canonicalize(memo)
    THEN Frac(2, 1)
    ELSE IF \E alias \in paymentAliases : fuzzyContains(alias, memo)
    THEN Frac(9, 5)
    ELSE IF fuzzyContains(membershipName, memo)
    THEN Frac(3, 2)
    ELSE jaccard(memTokens, tokenize(memo))

\* Math.max(sameDay, within7)
DateScore(attendanceDate, pd) ==
    FracMax(IF isSameDate(attendanceDate, pd) THEN Frac(1, 1) ELSE Frac(0, 1),
            IF isWithinDays(attendanceDate, pd, MatchWindowDays) THEN Frac(7, 10) ELSE Frac(0, 1))

\* the test of the loop with `score >= best.score`: the last of equal scores
\* wins
BetterPaymentLastWins(best, i, score) ==
    IF best.p = 0 \/ FracGe(score, best.score) THEN [p |-> i, score |-> score] ELSE best

\* `if (!best || score > best.score) best = { p, score }`: best is [p, score],
\* p = 0 while best is null
BetterPayment(best, i, score) ==
    IF best.p = 0 \/ FracGt(score, best.score) THEN [p |-> i, score |-> score] ELSE best

\* the loop over the payments of the customer that have a valid date
RECURSIVE PaymentBest(_, _, _, _, _, _, _, _)
PaymentBest(payments, customerName, attendanceDate, paymentAliases, membershipName, memTokens, i, best) ==
    IF i > Len(payments) THEN best
    ELSE IF \/ normalizeCustomerName(GetS(payments[i], "Customer")) /= customerName
            \/ parseDate(GetS(payments[i], "Date")) = NoDate
    THEN PaymentBest(payments, customerName, attendanceDate, paymentAliases,
            membershipName, memTokens, i + 1, best)
    ELSE PaymentBest(payments, customerName, attendanceDate, paymentAliases,
            membershipName, memTokens, i + 1,
            BetterPayment(best, i,
                FracAdd(DateScore(attendanceDate, parseDate(GetS(payments[i], "Date"))),
                        TextScore(GetS(payments[i], "Memo"), paymentAliases,
                                  membershipName, memTokens))))

\* the final test of findMatchingPayment on the best candidate
AcceptBest(best) ==
    IF best.p /= 0 /\ FracGe(best.score, Frac(11, 10)) THEN best.p ELSE NoPayment

findMatchingPayment(attendance, payments, rules) ==
    IF parseDate(KeyDate(attendance)) = NoDate THEN NoPayment
    ELSE AcceptBest(
           PaymentBest(payments,
                       normalizeCustomerName(GetS(attendance, "Customer")),
                       parseDate(KeyDate(attendance)),
                       paymentAliasesOf(rules, classifySessionType(GetS(attendance, "Offering Type Name"))),
                       normalizeMembershipName(GetS(attendance, "Membership Name")),
                       tokenize(normalizeMembershipName(GetS(attendance, "Membership Name"))),
                       1, [p |-> 0, score |-> Frac(0, 1)]))

(***************************************************************************)
(* Numbers.  A number of the sheets has at most two decimals and is held   *)
(* as its count of hundredths: 15 is 1500, 43.5 is 4350, 7.5 is 750.       *)
(* The source computes on IEEE-754 doubles.  A product that is not yet     *)
(* rounded is held as the exact fraction num/den of hundredths, with the   *)
(* flag low when the double the source computes lies below that exact      *)
(* value; this matters to Math.round only when the exact value ends in     *)
(* one half.                                                               *)
(***************************************************************************)
RECURSIVE DigitsEnd(_, _)
\* first position >= i that holds no digit
DigitsEnd(s, i) ==
    IF i <= Len(s) /\ Char(s, i) \in Digits THEN DigitsEnd(s, i + 1) ELSE i

RECURSIVE NatOf(_, _)
\* the number written by the first n digits of s
NatOf(s, n) == IF n = 0 THEN 0 ELSE 10 * NatOf(s, n - 1) + DigitVal(Char(s, n))

\* the first two decimals of a fraction text, as hundredths
FractionOf(frac) ==
    IF Len(frac) = 0 THEN 0
    ELSE IF Len(frac) = 1 THEN 10 * NatOf(frac, 1)
    ELSE NatOf(SubSeq(frac, 1, 2), 2)

\* the longest numeric prefix of a text after leading white space: its
\* value in hundredths and the position after it
NumericPrefix(s) ==
    LET b == SkipWs(s, 1)
        neg == b <= Len(s) /\ Char(s, b) = "-"
        i == IF neg THEN b + 1 ELSE b
        j == DigitsEnd(s, i)
        k == IF j <= Len(s) /\ Char(s, j) = "." THEN DigitsEnd(s, j + 1) ELSE j
        abs == 100 * NatOf(SubSeq(s, i, j - 1), j - i)
               + FractionOf(SubSeq(s, j + 1, k - 1))
    IN  [nan |-> j = i /\ k <= j + 1,
         value |-> IF neg THEN 0 - abs ELSE abs,
         end |-> k]

\* parseFloat of a text: <<n>> in hundredths, <<>> for NaN
parseFloat(s) ==
    IF NumericPrefix(s).nan THEN <<>> ELSE << NumericPrefix(s).value >>

\* String.prototype.replace('%', ''): the first '%' is removed
RECURSIVE RemoveFirstPercent(_, _)
RemoveFirstPercent(s, i) ==
    IF i > Len(s) THEN s
    ELSE IF Char(s, i) = "%" THEN SubSeq(s, 1, i - 1) \o SubSeq(s, i + 1, Len(s))
    ELSE RemoveFirstPercent(s, i + 1)

\* toNum of normalizeRules; the default null is held as 0: every use of
\* the field in the service coerces null to 0 (x * null, null > 0, null || 0)
toNum(v) ==
    LET n == parseFloat(RemoveFirstPercent(v, 1))
    IN  IF n = <<>> THEN 0 ELSE n[1]

\* (sessionPrice * percentage) / 100 for the prices and percentages of the
\* sheets, whose double falls below an exact half of a hundredth
PercentLow ==
    { <<500, 4350>>, <<1500, 850>>, <<575, 1800>>, <<1325, 1800>>,
      <<95, 3000>>, <<205, 3000>>, <<335, 3000>>, <<345, 3000>>,
      <<425, 3000>>, <<725, 3000>>, <<795, 3000>>, <<815, 3000>>,
      <<845, 3000>>, <<1395, 3000>>, <<1465, 3000>>,
      <<190, 1500>>, <<410, 1500>>, <<670, 1500>>, <<690, 1500>>,
      <<850, 1500>>, <<1450, 1500>>,
      <<290, 500>>, <<570, 500>>, <<1130, 500>>, <<1150, 500>> }

\* value * (1 - 50 / 100) for the values up to 15, whose double falls below
\* an exact half of a hundredth
FactorLow ==
    { 29, 57, 113, 115, 201, 203, 205, 207, 251, 253, 255, 427, 431, 435,
      439, 477, 481, 485, 489, 803, 829, 837, 845, 853, 879, 887, 895, 903,
      929, 937, 945, 953, 979, 987, 995, 1003 }

Exactly(n) == [num |-> n, den |-> 1, low |-> FALSE]

\* (value * percentage) / 100
PercentOf(value, percentage) ==
    [num |-> value * percentage, den |-> 10000,
     low |-> <<value, percentage>> \in PercentLow]

\* value * (1 - pct / 100)
TimesFactor(value, pct) ==
    [num |-> value * (10000 - pct), den |-> 10000,
     low |-> pct = 5000 /\ value \in FactorLow]

\* Math.round(n * 100) / 100; Math.round takes a half up, TLA+ \div is floor
round2(n) ==
    LET q == n.num \div n.den
        r == n.num % n.den
    IN  IF 2 * r > n.den \/ (2 * r = n.den /\ ~n.low) THEN q + 1 ELSE q

\* String(n) of a number with at most two decimals: 1500 is "15", 750 "7.5"
NumberToText(n) ==
    LET a == Abs(n)
        whole == ToString(a \div 100)
        frac == a % 100
        text == IF frac = 0 THEN whole
                ELSE IF frac % 10 = 0 THEN whole \o "." \o ToString(frac \div 10)
                ELSE IF frac < 10 THEN whole \o ".0" \o ToString(frac)
                ELSE whole \o "." \o ToString(frac)
    IN  IF n < 0 THEN "-" \o text ELSE text

\* Number(text || 0) || 0: the whole trimmed text must be a number, '' is 0
\* and NaN falls to 0
NumberOrZero(text) ==
    LET t == Trim(text)
        n == NumericPrefix(t)
    IN  IF t = "" \/ n.nan \/ n.end <= Len(t) THEN 0 ELSE n.value

(***************************************************************************)
(* Rows read from the sheets.  null and undefined are held as Null.        *)
(***************************************************************************)
Null == [null |-> TRUE]

\* kk.toLowerCase().trim() === k.toLowerCase().trim()
SameHeader(kk, k) == Trim(toLowerCase(kk)) = Trim(toLowerCase(k))

\* String(v).trim() !== ''
NonBlank(v) == Trim(v) /= ""

RECURSIVE getFieldFrom(_, _, _)
getFieldFrom(obj, keys, i) ==
    IF i > Len(keys) THEN ""
    ELSE LET k == keys[i]
             found == { kk \in DOMAIN obj : SameHeader(kk, k) }
             foundKey == CHOOSE kk \in found : TRUE
         IN  IF k \in DOMAIN obj /\ NonBlank(obj[k]) THEN obj[k]
             ELSE IF found /= {} /\ NonBlank(obj[foundKey]) THEN obj[foundKey]
             ELSE getFieldFrom(obj, keys, i + 1)

\* the first of the keys, exact or without regard to case, that holds text
getField(obj, keys) == IF obj = Null THEN "" ELSE getFieldFrom(obj, keys, 1)

\* r.session_type ?? r.category ?? ''
RawSessionType(r) ==
    IF "session_type" \in DOMAIN r THEN r["session_type"]
    ELSE IF "category" \in DOMAIN r THEN r["category"]
    ELSE ""

\* one rule of normalizeRules, with the fields the service reads
normalizeRule(r) ==
    [package_name |-> Trim(OrS(OrS(GetS(r, "package_name"), GetS(r, "membership_name")),
                               GetS(r, "name"))),
     session_type |->
        LET raw == toLowerCase(Trim(RawSessionType(r)))
            privateFlag == toLowerCase(GetS(r, "privateSession"))
        IN  IF HasAt(raw, 1, "priv") THEN "private"
            ELSE IF HasAt(raw, 1, "group") THEN "group"
            ELSE IF privateFlag \in {"true", "1"} THEN "private"
            ELSE "group",
     price |-> toNum(GetS(r, "price")),
     unit_price |-> toNum(GetS(r, "unit_price")),
     coach_percentage |-> toNum(OrS(GetS(r, "coach_percentage"), GetS(r, "coachPct"))),
     bgm_percentage |-> toNum(OrS(GetS(r, "bgm_percentage"), GetS(r, "bgmPct"))),
     management_percentage |->
        toNum(OrS(GetS(r, "management_percentage"), GetS(r, "mgmtPct"))),
     mfc_percentage |-> toNum(OrS(GetS(r, "mfc_percentage"), GetS(r, "mfcPct"))),
     attendance_alias |-> Trim(OrS(GetS(r, "attendance_alias"), GetS(r, "attendanceAlias"))),
     payment_memo_alias |->
        Trim(OrS(GetS(r, "payment_memo_alias"), GetS(r, "paymentMemoAlias")))]

normalizeRules(rawRules) == [i \in 1..Len(rawRules) |-> normalizeRule(rawRules[i])]

\* parseFloat(String(v)) of a number cell; the number cells of the sheets
\* hold numbers, an empty cell counts 0
FloatOf(text) == IF parseFloat(text) = <<>> THEN 0 ELSE parseFloat(text)[1]

\* a cell is truthy when it holds text
Truthy(v) == v /= ""

(***************************************************************************)
(* Discount of a payment, as processAttendanceRecord resolves it.          *)
(* Discounts are the raw rows of the discounts sheet.                      *)
(***************************************************************************)
findApplicableDiscount(payment, discounts) ==
    IF payment = Null THEN Null
    ELSE LET memo == GetS(payment, "Memo")
             amount == FloatOf(OrS(GetS(payment, "Amount"), "0"))
             byCode == FirstIndex({ i \in 1..Len(discounts) :
                          /\ Truthy(GetS(discounts[i], "active"))
                          /\ Truthy(GetS(discounts[i], "discount_code"))
                          /\ Includes(toLowerCase(memo),
                                      toLowerCase(GetS(discounts[i], "discount_code"))) })
             generic == FirstIndex({ i \in 1..Len(discounts) :
                          GetS(discounts[i], "discount_code") = "discount" })
         IN  IF byCode /= 0 THEN discounts[byCode]
             ELSE IF Includes(toLowerCase(memo), "discount") \/ amount < 0
                  THEN IF generic /= 0 THEN discounts[generic] ELSE Null
                  ELSE Null

\* the price when a discount of type 'full' is scaled like a partial one
DiscountedPriceScalingFull(baseAmount, rule, discountInfo) ==
    LET price == IF rule /= Null /\ rule.unit_price > 0 THEN rule.unit_price
                 ELSE baseAmount
        pct == NumberOrZero(GetS(discountInfo, "applicable_percentage"))
        type == toLowerCase(OrS(GetS(discountInfo, "coach_payment_type"), "partial"))
    IN  IF discountInfo = Null THEN Exactly(price)
        ELSE IF type = "free" THEN Exactly(0)
        ELSE IF pct > 0 THEN TimesFactor(price, pct)
        ELSE Exactly(price)

calculateDiscountedSessionPrice(baseAmount, rule, discountInfo) ==
    LET price == IF rule /= Null /\ rule.unit_price > 0 THEN rule.unit_price
                 ELSE baseAmount
        pct == NumberOrZero(GetS(discountInfo, "applicable_percentage"))
        type == toLowerCase(OrS(GetS(discountInfo, "coach_payment_type"), "partial"))
    IN  IF discountInfo = Null THEN Exactly(price)
        ELSE IF type = "free" THEN Exactly(0)
        ELSE IF type = "full" THEN Exactly(price)
        ELSE IF type = "partial" /\ pct > 0 THEN TimesFactor(price, pct)
        ELSE Exactly(price)

\* the percentages used when no rule was found
DefaultPercentages(sessionType) ==
    IF sessionType = "private"
    THEN [coach |-> 8000, bgm |-> 1500, management |-> 0, mfc |-> 500]
    ELSE [coach |-> 4350, bgm |-> 3000, management |-> 850, mfc |-> 1800]

calculateAmounts(sessionPrice, rule, sessionType) ==
    IF rule = Null
    THEN [coach |-> PercentOf(sessionPrice, DefaultPercentages(sessionType).coach),
          bgm |-> PercentOf(sessionPrice, DefaultPercentages(sessionType).bgm),
          management |-> PercentOf(sessionPrice, DefaultPercentages(sessionType).management),
          mfc |-> PercentOf(sessionPrice, DefaultPercentages(sessionType).mfc)]
    ELSE [coach |-> PercentOf(sessionPrice, rule.coach_percentage),
          bgm |-> PercentOf(sessionPrice, rule.bgm_percentage),
          management |-> PercentOf(sessionPrice, rule.management_percentage),
          mfc |-> PercentOf(sessionPrice, rule.mfc_percentage)]

\* new Date().toISOString() at tick t of the clock
toISOString(t) == "2024-04-01T00:00:" \o (IF t < 10 THEN "0" ELSE "") \o ToString(t) \o ".000Z"

(***************************************************************************)
(* The master row of one attendance record.  discountPercentage, which the *)
(* source copies from the discount row as the cell holds it, is held as    *)
(* the number the cell denotes.                                            *)
(***************************************************************************)
\* a lookup that takes the first payment of the list when none was accepted
PaymentAtOrFirst(payments, p) ==
    IF p /= NoPayment THEN payments[p]
    ELSE IF Len(payments) > 0 THEN payments[1] ELSE Null

\* payments[p] and rules[r], null when nothing matched
PaymentAt(payments, p) == IF p = NoPayment THEN Null ELSE payments[p]
RuleAt(rules, r) == IF r = NoRule THEN Null ELSE rules[r]

\* step 6 of processAttendanceRecord: the master row
MasterRowOf(attendance, matchingPayment, rule, discountInfo, amount, discountedSessionPrice, amounts, clock) ==
    [customerName |-> getField(attendance, <<"Customer Name", "Customer">>),
     eventStartsAt |-> getField(attendance,
                          <<"Event Starts At", "EventStartAt", "EventStart", "Date">>),
     membershipName |-> getField(attendance,
                           <<"Membership Name", "Membership", "MembershipName">>),
     instructors |-> getField(attendance, <<"Instructors", "Instructor">>),
     status |-> getField(attendance, <<"Status">>),
     discount |-> GetS(discountInfo, "name"),
     discountPercentage |-> NumberOrZero(GetS(discountInfo, "applicable_percentage")),
     verificationStatus |-> IF matchingPayment = Null THEN "Not Verified" ELSE "Verified",
     invoiceNumber |-> GetS(matchingPayment, "Invoice"),
     amount |-> amount,
     paymentDate |-> GetS(matchingPayment, "Date"),
     packagePrice |-> IF rule = Null THEN 0 ELSE round2(Exactly(rule.price)),
     sessionPrice |-> IF rule = Null THEN 0 ELSE round2(Exactly(rule.unit_price)),
     discountedSessionPrice |-> discountedSessionPrice,
     coachAmount |-> round2(amounts.coach),
     bgmAmount |-> round2(amounts.bgm),
     managementAmount |-> round2(amounts.management),
     mfcAmount |-> round2(amounts.mfc),
     uniqueKey |-> generateUniqueKey(attendance),
     createdAt |-> toISOString(clock),
     updatedAt |-> toISOString(clock)]

\* step 5: the amounts of the discounted session price
RowWithPrice(attendance, matchingPayment, sessionType, rule, discountInfo, amount, discountedSessionPrice, clock) ==
    MasterRowOf(attendance, matchingPayment, rule, discountInfo, amount,
                discountedSessionPrice,
                calculateAmounts(discountedSessionPrice, rule, sessionType), clock)

\* step 4: the discounted session price
RowWithDiscount(attendance, matchingPayment, sessionType, rule, discountInfo, amount, clock) ==
    RowWithPrice(attendance, matchingPayment, sessionType, rule, discountInfo, amount,
                 round2(calculateDiscountedSessionPrice(amount, rule, discountInfo)), clock)

\* step 3: the discount of the matched payment, and its amount
RowWithMatches(attendance, matchingPayment, sessionType, rule, discounts, clock) ==
    RowWithDiscount(attendance, matchingPayment, sessionType, rule,
                    findApplicableDiscount(matchingPayment, discounts),
                    IF matchingPayment = Null THEN 0
                    ELSE FloatOf(GetS(matchingPayment, "Amount")),
                    clock)

\* steps 1 and 2: the matching payment and the matching rule
processAttendanceRecord(attendance, payments, rules, discounts, clock) ==
    RowWithMatches(attendance,
                   PaymentAt(payments, findMatchingPayment(attendance, payments, rules)),
                   classifySessionType(GetS(attendance, "Offering Type Name")),
                   RuleAt(rules,
                          findMatchingRule(
                              getField(attendance,
                                       <<"Membership Name", "Membership", "MembershipName">>),
                              classifySessionType(GetS(attendance, "Offering Type Name")),
                              rules)),
                   discounts, clock)

(***************************************************************************)
(* The master sheet.  saveMasterData writes one row object per master row  *)
(* under the headers below; the sheet holds every cell as text, a number   *)
(* as String(number).  normalizeMasterRow reads a row object back.         *)
(***************************************************************************)
saveMasterData(rows) ==
    [i \in 1..Len(rows) |->
        ("Customer Name" :> rows[i].customerName)
        @@ ("Event Starts At" :> rows[i].eventStartsAt)
        @@ ("Membership Name" :> rows[i].membershipName)
        @@ ("Instructors" :> rows[i].instructors)
        @@ ("Status" :> rows[i].status)
        @@ ("Discount" :> rows[i].discount)
        @@ ("Discount %" :> NumberToText(rows[i].discountPercentage))
        @@ ("Verification Status" :> rows[i].verificationStatus)
        @@ ("Invoice #" :> rows[i].invoiceNumber)
        @@ ("Amount" :> NumberToText(rows[i].amount))
        @@ ("Payment Date" :> rows[i].paymentDate)
        @@ ("Package Price" :> NumberToText(rows[i].packagePrice))
        @@ ("Session Price" :> NumberToText(rows[i].sessionPrice))
        @@ ("Discounted Session Price" :> NumberToText(rows[i].discountedSessionPrice))
        @@ ("Coach Amount" :> NumberToText(rows[i].coachAmount))
        @@ ("BGM Amount" :> NumberToText(rows[i].bgmAmount))
        @@ ("Management Amount" :> NumberToText(rows[i].managementAmount))
        @@ ("MFC Amount" :> NumberToText(rows[i].mfcAmount))
        @@ ("UniqueKey" :> rows[i].uniqueKey)
        @@ ("CreatedAt" :> rows[i].createdAt)
        @@ ("UpdatedAt" :> rows[i].updatedAt)]

\* parseFloat(row.x || row['X'] || '0')
NumberCell(row, x, header) == FloatOf(OrS(OrS(GetS(row, x), GetS(row, header)), "0"))

normalizeMasterRow(row) ==
    [customerName |-> OrS(GetS(row, "customerName"), GetS(row, "Customer Name")),
     eventStartsAt |-> OrS(GetS(row, "eventStartsAt"), GetS(row, "Event Starts At")),
     membershipName |-> OrS(GetS(row, "membershipName"), GetS(row, "Membership Name")),
     instructors |-> OrS(GetS(row, "instructors"), GetS(row, "Instructors")),
     status |-> OrS(GetS(row, "status"), GetS(row, "Status")),
     discount |-> OrS(GetS(row, "discount"), GetS(row, "Discount")),
     discountPercentage |-> NumberCell(row, "discountPercentage", "Discount %"),
     verificationStatus |->
        OrS(OrS(GetS(row, "verificationStatus"), GetS(row, "Verification Status")),
            "Not Verified"),
     invoiceNumber |-> OrS(GetS(row, "invoiceNumber"), GetS(row, "Invoice #")),
     amount |-> NumberCell(row, "amount", "Amount"),
     paymentDate |-> OrS(GetS(row, "paymentDate"), GetS(row, "Payment Date")),
     packagePrice |-> NumberCell(row, "packagePrice", "Package Price"),
     sessionPrice |-> NumberCell(row, "sessionPrice", "Session Price"),
     discountedSessionPrice |->
        NumberCell(row, "discountedSessionPrice", "Discounted Session Price"),
     coachAmount |-> NumberCell(row, "coachAmount", "Coach Amount"),
     bgmAmount |-> NumberCell(row, "bgmAmount", "BGM Amount"),
     managementAmount |-> NumberCell(row, "managementAmount", "Management Amount"),
     mfcAmount |-> NumberCell(row, "mfcAmount", "MFC Amount"),
     uniqueKey |-> GetS(row, "uniqueKey"),
     createdAt |-> GetS(row, "createdAt"),
     updatedAt |-> GetS(row, "updatedAt")]

(***************************************************************************)
(* Date filters                                                            *)
(***************************************************************************)
\* the range when a date that equals the upper bound is left out
InDateRangeBelowTo(date, fromDate, toDate) ==
    /\ date /= NoDate
    /\ ~(fromDate /= "" /\ parseDate(fromDate) /= NoDate /\ date < parseDate(fromDate))
    /\ ~(toDate /= "" /\ parseDate(toDate) /= NoDate /\ date >= parseDate(toDate))

\* the filter callback shared by the two date filters
InDateRange(date, fromDate, toDate) ==
    /\ date /= NoDate
    /\ ~(fromDate /= "" /\ parseDate(fromDate) /= NoDate /\ date < parseDate(fromDate))
    /\ ~(toDate /= "" /\ parseDate(toDate) /= NoDate /\ date > parseDate(toDate))

filterAttendanceByDate(attendance, fromDate, toDate) ==
    IF fromDate = "" /\ toDate = "" THEN attendance
    ELSE SelectSeq(attendance, LAMBDA record :
            InDateRange(parseDate(OrS(GetS(record, "Event Starts At"), GetS(record, "Date"))),
                        fromDate, toDate))

filterPaymentsByDate(payments, fromDate, toDate) ==
    IF fromDate = "" /\ toDate = "" THEN payments
    ELSE SelectSeq(payments, LAMBDA record :
            InDateRange(parseDate(GetS(record, "Date")), fromDate, toDate))

(***************************************************************************)
(* Discount post-processing.  invoiceToDiscount is a function from invoice *)
(* number to the discount name and percentage found for it.                *)
(***************************************************************************)
\* d.active === true || String(d.active).toLowerCase() === 'true'
IsActive(d) == toLowerCase(GetS(d, "active")) = "true"

DiscountCode(d) == Trim(OrS(GetS(d, "discount_code"), GetS(d, "name")))

\* the three match types; a code is plain text, for which the regular
\* expression /code/i is containment without regard to case
DiscountMatches(d, memo) ==
    LET code == DiscountCode(d)
        matchType == toLowerCase(OrS(GetS(d, "match_type"), "contains"))
    IN  /\ code /= ""
        /\ IF matchType = "exact" THEN canonicalize(memo) = canonicalize(code)
           ELSE IF matchType = "regex"
                THEN Includes(toLowerCase(memo), toLowerCase(code))
                ELSE Includes(canonicalize(memo), canonicalize(code))

MapPut(map, k, v) == [x \in DOMAIN map \cup {k} |-> IF x = k THEN v ELSE map[x]]

\* the inner loop: the active discounts from position j on, for one payment
RECURSIVE ScanDiscounts(_, _, _, _, _)
ScanDiscounts(memo, invoice, activeDiscounts, j, map) ==
    IF j > Len(activeDiscounts) THEN map
    ELSE LET d == activeDiscounts[j]
             pct == NumberOrZero(GetS(d, "applicable_percentage"))
             better == invoice \notin DOMAIN map \/ pct > map[invoice].pct
             next == IF DiscountMatches(d, memo) /\ better
                     THEN MapPut(map, invoice,
                                 [name |-> OrS(GetS(d, "name"), DiscountCode(d)), pct |-> pct])
                     ELSE map
         IN  ScanDiscounts(memo, invoice, activeDiscounts, j + 1, next)

\* the outer loop: the payments from position i on
RECURSIVE ScanPayments(_, _, _, _)
ScanPayments(payments, activeDiscounts, i, map) ==
    IF i > Len(payments) THEN map
    ELSE LET memo == GetS(payments[i], "Memo")
             invoice == Trim(GetS(payments[i], "Invoice"))
         IN  ScanPayments(payments, activeDiscounts, i + 1,
                          IF invoice = "" \/ memo = "" THEN map
                          ELSE ScanDiscounts(memo, invoice, activeDiscounts, 1, map))

invoiceToDiscount(payments, discounts) ==
    ScanPayments(payments, SelectSeq(discounts, IsActive), 1, <<>>)

\* a rescaling that also multiplies the two rule prices by the factor
RescaleRowAndPrices(r, found) ==
    [r EXCEPT !.discount = found.name,
              !.discountPercentage = found.pct,
              !.amount = round2(TimesFactor(r.amount, found.pct)),
              !.packagePrice = round2(TimesFactor(r.packagePrice, found.pct)),
              !.sessionPrice = round2(TimesFactor(r.sessionPrice, found.pct)),
              !.discountedSessionPrice = round2(TimesFactor(r.sessionPrice, found.pct)),
              !.coachAmount = round2(TimesFactor(r.coachAmount, found.pct)),
              !.bgmAmount = round2(TimesFactor(r.bgmAmount, found.pct)),
              !.managementAmount = round2(TimesFactor(r.managementAmount, found.pct)),
              !.mfcAmount = round2(TimesFactor(r.mfcAmount, found.pct))]

\* the row a matched invoice gives, factor = 1 - pct / 100
RescaleRow(r, found) ==
    [r EXCEPT !.discount = found.name,
              !.discountPercentage = found.pct,
              !.amount = round2(TimesFactor(r.amount, found.pct)),
              !.discountedSessionPrice = round2(TimesFactor(r.sessionPrice, found.pct)),
              !.coachAmount = round2(TimesFactor(r.coachAmount, found.pct)),
              !.bgmAmount = round2(TimesFactor(r.bgmAmount, found.pct)),
              !.managementAmount = round2(TimesFactor(r.managementAmount, found.pct)),
              !.mfcAmount = round2(TimesFactor(r.mfcAmount, found.pct))]

\* the rows of the ledger under the map invoice -> best discount
RescaleRows(master, map) ==
    [i \in 1..Len(master) |->
        IF Trim(master[i].invoiceNumber) = "" \/ Trim(master[i].invoiceNumber) \notin DOMAIN map
        THEN master[i]
        ELSE RescaleRow(master[i], map[Trim(master[i].invoiceNumber)])]

\* `if (invoiceToDiscount.size === 0) return master`
RescaleUnder(master, map) == IF DOMAIN map = {} THEN master ELSE RescaleRows(master, map)

applyDiscountsFromPayments(master, payments, discounts) ==
    IF Len(discounts) = 0 \/ Len(payments) = 0 THEN master
    ELSE RescaleUnder(master, invoiceToDiscount(payments, discounts))

(***************************************************************************)
(* The upsert loop of verifyAttendanceData.  A Map is held as the sequence *)
(* of its values in insertion order; set replaces the value of a key in    *)
(* place or appends it.                                                    *)
(***************************************************************************)
MapSet(rows, row) ==
    LET at == FirstIndex({ i \in 1..Len(rows) : rows[i].uniqueKey = row.uniqueKey })
    IN  IF at = 0 THEN Append(rows, row) ELSE [rows EXCEPT ![at] = row]

\* new Map(existingMaster.map(r => [r.uniqueKey, r]))
RECURSIVE MapOf(_, _, _)
MapOf(existingMaster, i, rows) ==
    IF i > Len(existingMaster) THEN rows
    ELSE MapOf(existingMaster, i + 1, MapSet(rows, existingMaster[i]))

\* a variant of the body of the loop in which an invoice verifies one
\* record of the run only: a row whose invoice is held by the row of
\* another key is stored as not verified
UpsertOncePerInvoice(st, uniqueKey, masterRow) ==
    [existingByKey |->
        MapSet(st.existingByKey,
               IF /\ masterRow.invoiceNumber /= ""
                  /\ \E j \in 1..Len(st.existingByKey) :
                        /\ st.existingByKey[j].invoiceNumber = masterRow.invoiceNumber
                        /\ st.existingByKey[j].uniqueKey /= masterRow.uniqueKey
               THEN [masterRow EXCEPT !.verificationStatus = "Not Verified",
                                      !.invoiceNumber = "", !.amount = 0]
               ELSE masterRow),
     newMasterRows |-> IF \A j \in 1..Len(st.existingByKey) :
                             st.existingByKey[j].uniqueKey /= masterRow.uniqueKey
                       THEN Append(st.newMasterRows, masterRow)
                       ELSE st.newMasterRows,
     processed |-> Append(st.processed, uniqueKey)]

\* the body of the loop for a record that is not skipped; st holds
\* existingByKey, newMasterRows and the keys of the records processed
Upsert(st, uniqueKey, masterRow) ==
    [existingByKey |-> MapSet(st.existingByKey, masterRow),
     newMasterRows |-> IF \A j \in 1..Len(st.existingByKey) :
                             st.existingByKey[j].uniqueKey /= masterRow.uniqueKey
                       THEN Append(st.newMasterRows, masterRow)
                       ELSE st.newMasterRows,
     processed |-> Append(st.processed, uniqueKey)]

\* the loop over the records from position i on
RECURSIVE UpsertFrom(_, _, _, _, _, _, _, _, _)
UpsertFrom(filteredAttendance, filteredPayments, rules, discounts, forceReverify, existingKeys, clock, i, st) ==
    IF i > Len(filteredAttendance) THEN st
    ELSE UpsertFrom(filteredAttendance, filteredPayments, rules, discounts,
                    forceReverify, existingKeys, clock, i + 1,
                    IF ~forceReverify /\ generateUniqueKey(filteredAttendance[i]) \in existingKeys
                    THEN st
                    ELSE Upsert(st, generateUniqueKey(filteredAttendance[i]),
                                processAttendanceRecord(filteredAttendance[i],
                                    filteredPayments, rules, discounts, clock)))

\* lines 136 to 139: the rows of the map, and the rows after post-processing
PostProcess(st, filteredPayments, discounts) ==
    [merged |-> st.existingByKey,
     allMasterRows |-> applyDiscountsFromPayments(st.existingByKey, filteredPayments,
                                                  discounts),
     newMasterRows |-> st.newMasterRows,
     processed |-> st.processed]

\* lines 105 to 139: the state of the run when the ledger is about to be saved
Reconcile(params, filteredAttendance, filteredPayments, rules, discounts, existingMaster, clock) ==
    PostProcess(UpsertFrom(filteredAttendance, filteredPayments, rules, discounts,
                           params.forceReverify,
                           { existingMaster[i].uniqueKey : i \in 1..Len(existingMaster) },
                           clock, 1,
                           [existingByKey |-> MapOf(existingMaster, 1, <<>>),
                            newMasterRows |-> <<>>,
                            processed |-> <<>>]),
                filteredPayments, discounts)

(***************************************************************************)
(* Pure-function specification: canonicalize                               *)
(***************************************************************************)
MaxWords == 3

CanonWords == {"day", "pass", "adult", "single", "session", "junior", "x",
               "week", "Packs", "only"}
CanonSeps == {" ", "-"}

RECURSIVE JoinedTexts(_)
JoinedTexts(n) ==
    IF n = 1 THEN CanonWords
    ELSE JoinedTexts(n - 1) \cup
         { t \o s \o w : t \in JoinedTexts(n - 1), s \in CanonSeps, w \in CanonWords }

CanonInputs == JoinedTexts(MaxWords)

InitCanon ==
    /\ fin \in { [text |-> t] : t \in CanonInputs }
    /\ fout = NoResult
    /\ EngineIdle

Canonicalize ==
    /\ fout = NoResult
    /\ fout' = [once |-> canonicalize(fin.text),
                twice |-> canonicalize(canonicalize(fin.text))]
    /\ UNCHANGED <<fin, engineVars>>

NextCanon == Canonicalize

SpecCanon == InitCanon /\ [][NextCanon]_vars

\* C8: canonicalize(canonicalize(x)) = canonicalize(x) for every text x
CanonicalizeIdempotent ==
    fout /= NoResult => fout.twice = fout.once

(***************************************************************************)
(* Pure-function specification: generateUniqueKey on two records           *)
(***************************************************************************)
KeyTexts == {"a", "aa", "a a", "a_a"}

KeyRecords ==
    { ("Event Starts At" :> e) @@ ("Date" :> d) @@ ("Customer" :> c)
      @@ ("Membership Name" :> m) @@ ("Instructors" :> i) @@ ("Status" :> st) :
        e \in {"", "1"}, d \in {"1", "2"}, c \in KeyTexts, m \in KeyTexts,
        i \in {"", "a", "a a"}, st \in {"Attended", "No Show"} }

InitKey ==
    /\ fin \in { [a |-> a, b |-> b] : a \in KeyRecords, b \in KeyRecords }
    /\ fout = NoResult
    /\ EngineIdle

GenerateKeys ==
    /\ fout = NoResult
    /\ fout' = [ka |-> generateUniqueKey(fin.a), kb |-> generateUniqueKey(fin.b)]
    /\ UNCHANGED <<fin, engineVars>>

NextKey == GenerateKeys

SpecKey == InitKey /\ [][NextKey]_vars

SameKeyFields(a, b) ==
    /\ KeyDate(a) = KeyDate(b)
    /\ KeyCustomer(a) = KeyCustomer(b)
    /\ KeyMembership(a) = KeyMembership(b)
    /\ KeyInstructors(a) = KeyInstructors(b)

IsAlnum(s) == \A i \in 1..Len(s) : Char(s, i) \in LowerLetters \cup UpperLetters \cup Digits

AlnumKeyFields(a) ==
    /\ IsAlnum(KeyDate(a))
    /\ IsAlnum(KeyCustomer(a))
    /\ IsAlnum(KeyMembership(a))
    /\ IsAlnum(KeyInstructors(a))

\* C7 as stated: records that agree on (event timestamp, customer, membership,
\* instructors) get the same key, and records that differ in one of the four
\* get different keys
UniqueKeyStability ==
    fout /= NoResult =>
        (SameKeyFields(fin.a, fin.b) <=> fout.ka = fout.kb)

\* C7 amended: records that agree on the four fields get the same key, and
\* records whose four fields hold only letters and digits and differ in one of
\* them get different keys
UniqueKeyStabilityAlnum ==
    fout /= NoResult =>
        /\ SameKeyFields(fin.a, fin.b) => fout.ka = fout.kb
        /\ (AlnumKeyFields(fin.a) /\ AlnumKeyFields(fin.b) /\ ~SameKeyFields(fin.a, fin.b))
              => fout.ka /= fout.kb

\* two records that differ only outside the four fields, and two alphanumeric
\* records that differ in one of them, have had their keys generated
UniqueKeyWitness ==
    /\ fout /= NoResult
    /\ AlnumKeyFields(fin.a) /\ AlnumKeyFields(fin.b)
    /\ KeyCustomer(fin.a) = "a" /\ KeyMembership(fin.a) = "aa"
    /\ KeyCustomer(fin.b) = "aa" /\ KeyMembership(fin.b) = "a"
    /\ KeyDate(fin.a) = KeyDate(fin.b) /\ KeyInstructors(fin.a) = KeyInstructors(fin.b)
    /\ fout.ka /= fout.kb

(***************************************************************************)
(* Pure-function specification: findMatchingRule                           *)
(***************************************************************************)
MaxRules == 3

RuleOf(st, alias, pkg) ==
    [session_type |-> st, attendance_alias |-> alias, package_name |-> pkg]

RulePool ==
    { RuleOf("group", "5 pack", "Five"),
      RuleOf("group", "5 pack monthly", "5 pack"),
      RuleOf("group", "", ""),
      RuleOf("private", "5 pack", "5 pack"),
      RuleOf("group", "", "10 pack"),
      RuleOf("group", "", "monthly 10 x") }

RuleMemberships == {"Adult 5 pack only", "10 Packs", "10 pack monthly", "boxing"}

RECURSIVE RuleLists(_)
RuleLists(n) ==
    IF n = 0 THEN {<<>>}
    ELSE RuleLists(n - 1) \cup
         { Append(l, r) : l \in { x \in RuleLists(n - 1) : Len(x) = n - 1 }, r \in RulePool }

InitRule ==
    /\ fin \in { [membershipName |-> m, sessionType |-> st, rules |-> l] :
                    m \in RuleMemberships, st \in {"group", "private"},
                    l \in RuleLists(MaxRules) }
    /\ fout = NoResult
    /\ EngineIdle

FindRule ==
    /\ fout = NoResult
    /\ fout' = [rule |-> findMatchingRule(fin.membershipName, fin.sessionType, fin.rules)]
    /\ UNCHANGED <<fin, engineVars>>

NextRule == FindRule

SpecRule == InitRule /\ [][NextRule]_vars

MinOf(S) == CHOOSE i \in S : \A j \in S : i <= j

\* the rule the precedence order selects, from the canonical membership
\* label cm and the fuzzy score of each rule of the category cat
PrecedenceChoice(rules, cat, cm, score) ==
    LET byAlias == { i \in cat : /\ rules[i].attendance_alias /= ""
                                 /\ canonicalize(rules[i].attendance_alias) = cm }
        byPackage == { i \in cat : /\ rules[i].package_name /= ""
                                   /\ canonicalize(rules[i].package_name) = cm }
        top == { i \in cat : \A j \in cat : FracGe(score[i], score[j]) }
        accepted == { i \in top : FracGe(score[i], Frac(1, 2)) }
        defaults == { i \in cat : rules[i].package_name = "" }
    IN  IF byAlias /= {} THEN MinOf(byAlias)
        ELSE IF byPackage /= {} THEN MinOf(byPackage)
        ELSE IF accepted /= {} THEN MinOf(accepted)
        ELSE IF defaults /= {} THEN MinOf(defaults)
        ELSE NoRule

RuleScores(rules, m, memTokens) ==
    [i \in 1..Len(rules) |-> RuleScore(rules[i], m, memTokens)]

\* C9: only rules of the category; exact alias, then exact package name, then
\* the best fuzzy score if it is >= 0.5 (first of equal scores), then the
\* default rule, else null
RulePrecedence ==
    fout /= NoResult =>
        /\ fout.rule /= NoRule => fin.rules[fout.rule].session_type = fin.sessionType
        /\ fout.rule =
             PrecedenceChoice(fin.rules,
                 { i \in 1..Len(fin.rules) : fin.rules[i].session_type = fin.sessionType },
                 canonicalize(fin.membershipName),
                 RuleScores(fin.rules, fin.membershipName,
                            tokenize(canonicalize(fin.membershipName))))

\* an exact alias match placed after a rule that matches by package name and
\* by fuzzy alias wins
RulePrecedenceWitness ==
    /\ fout /= NoResult
    /\ fin.sessionType = "group"
    /\ fin.membershipName = "Adult 5 pack only"
    /\ fin.rules = << RuleOf("group", "5 pack monthly", "5 pack"),
                      RuleOf("private", "5 pack", "5 pack"),
                      RuleOf("group", "5 pack", "Five") >>
    /\ fout.rule = 3

(***************************************************************************)
(* Pure-function specification: findMatchingRule on labels that differ in  *)
(* letter case and surrounding white space                                 *)
(***************************************************************************)
CaseMemberships == {"Junior 5 Pack - Pay As You Go", " junior 5 pack - pay as you go"}

CaseRulePool ==
    { RuleOf("group", "Junior 5 pack - Pay As You Go", "Five"),
      RuleOf("group", "", "JUNIOR 5 PACK - PAY AS YOU GO "),
      RuleOf("group", "5 pack", "Junior 5"),
      RuleOf("group", "", ""),
      RuleOf("private", "junior 5 pack - pay as you go", "") }

RECURSIVE CaseRuleLists(_)
CaseRuleLists(n) ==
    IF n = 0 THEN {<<>>}
    ELSE CaseRuleLists(n - 1) \cup
         { Append(l, r) : l \in { x \in CaseRuleLists(n - 1) : Len(x) = n - 1 },
                          r \in CaseRulePool }

InitCase ==
    /\ fin \in { [membershipName |-> m, sessionType |-> st, rules |-> l] :
                    m \in CaseMemberships, st \in {"group", "private"},
                    l \in CaseRuleLists(MaxRules) }
    /\ fout = NoResult
    /\ EngineIdle

FindRuleOfLabel ==
    /\ fout = NoResult
    /\ fout' = [rule |-> findMatchingRule(fin.membershipName, fin.sessionType, fin.rules)]
    /\ UNCHANGED <<fin, engineVars>>

NextCase == FindRuleOfLabel

SpecCase == InitCase /\ [][NextCase]_vars

\* two labels that differ only in letter case and surrounding white space
SameButCase(a, b) == Trim(a) /= "" /\ Trim(toLowerCase(a)) = Trim(toLowerCase(b))

\* the rule matches the label in an exact step: its alias or its package
\* name has the canonical form of the label
ExactStep(rule, membershipName) ==
    \/ /\ Trim(rule.attendance_alias) /= ""
       /\ canonicalize(rule.attendance_alias) = canonicalize(membershipName)
    \/ /\ Trim(rule.package_name) /= ""
       /\ canonicalize(rule.package_name) = canonicalize(membershipName)

\* C15: when a rule of the session category has an alias or a package name
\* that differs from the membership label only in letter case or
\* surrounding white space, findMatchingRule returns a rule of the category
\* through an exact step, not the fuzzy match and not the default rule
CaseInsensitiveExact ==
    fout /= NoResult =>
        ((\E i \in 1..Len(fin.rules) :
             /\ fin.rules[i].session_type = fin.sessionType
             /\ \/ SameButCase(fin.rules[i].attendance_alias, fin.membershipName)
                \/ SameButCase(fin.rules[i].package_name, fin.membershipName))
         => /\ fout.rule /= NoRule
            /\ fin.rules[fout.rule].session_type = fin.sessionType
            /\ ExactStep(fin.rules[fout.rule], fin.membershipName))

\* the rule whose package name differs from the label in case and white
\* space was selected, after a rule with a fuzzy alias match and the default
CaseInsensitiveWitness ==
    /\ fout /= NoResult
    /\ fin.sessionType = "group"
    /\ fin.membershipName = "Junior 5 Pack - Pay As You Go"
    /\ fin.rules = << RuleOf("group", "5 pack", "Junior 5"),
                      RuleOf("group", "", ""),
                      RuleOf("group", "", "JUNIOR 5 PACK - PAY AS YOU GO ") >>
    /\ fout.rule = 3

(***************************************************************************)
(* Pure-function specification: findMatchingPayment                        *)
(***************************************************************************)
MaxPayments == 2

AttendanceOf(customer, starts, membership, offering, instructors, status) ==
    ("Customer" :> customer) @@ ("Event Starts At" :> starts)
    @@ ("Membership Name" :> membership) @@ ("Offering Type Name" :> offering)
    @@ ("Instructors" :> instructors) @@ ("Status" :> status)

PaymentOf(date, customer, memo, amount, invoice) ==
    ("Date" :> date) @@ ("Customer" :> customer) @@ ("Memo" :> memo)
    @@ ("Amount" :> amount) @@ ("Invoice" :> invoice)

PayRule(st, memoAlias) ==
    [session_type |-> st, attendance_alias |-> "", package_name |-> "",
     payment_memo_alias |-> memoAlias]

PayRules == << PayRule("group", "5 class pack"), PayRule("private", "") >>

PayAttendances ==
    { AttendanceOf("Kaia", d, "5 Pack", o, "Coach", "Attended") :
        d \in {"2024-03-03T10:00:00Z", "2024-03-04", "n/a"},
        o \in {"KIDS COMBAT", "Private 1 to 1"} }

PaymentPool ==
    { PaymentOf("2024-03-03", "KAIA ", "5 Class Packs", 7500, "INV1"),
      PaymentOf("2024-03-10", "kaia", "5 pack", 7500, "INV2"),
      PaymentOf("2024-03-11", "Kaia", "pack 5 intro", 7500, "INV3"),
      PaymentOf("2024-03-03", "Kaia", "boxing gloves", 2000, "INV4"),
      PaymentOf("2024-03-03", "Bob", "5 Class Packs", 7500, "INV5"),
      PaymentOf("n/a", "Kaia", "5 Class Packs", 7500, "INV6"),
      PaymentOf("2024-03-10", "Kaia", "10 pack", 9000, "INV7"),
      PaymentOf("2024-03-20", "Kaia", "", 100, "INV8") }

RECURSIVE PaymentLists(_)
PaymentLists(n) ==
    IF n = 0 THEN {<<>>}
    ELSE PaymentLists(n - 1) \cup
         { Append(l, x) : l \in { y \in PaymentLists(n - 1) : Len(y) = n - 1 },
                          x \in PaymentPool }

InitPay ==
    /\ fin \in { [attendance |-> a, payments |-> l, rules |-> PayRules] :
                    a \in PayAttendances, l \in PaymentLists(MaxPayments) }
    /\ fout = NoResult
    /\ EngineIdle

FindPayment ==
    /\ fout = NoResult
    /\ fout' = [payment |-> findMatchingPayment(fin.attendance, fin.payments, fin.rules)]
    /\ UNCHANGED <<fin, engineVars>>

NextPay == FindPayment

SpecPay == InitPay /\ [][NextPay]_vars

\* dateScore as the claim states it: same calendar day, else within 7 days
ClaimDateScore(attendanceDate, pd) ==
    IF attendanceDate \div 24 = pd \div 24 THEN Frac(1, 1)
    ELSE IF Abs(attendanceDate - pd) <= 7 * 24 THEN Frac(7, 10)
    ELSE Frac(0, 1)

\* textScore as the claim states it, on canonical texts
ClaimTextScore(cmemo, caliases, cmembership) ==
    IF cmemo \in caliases THEN Frac(2, 1)
    ELSE IF \E a \in caliases : Includes(a, cmemo) \/ Includes(cmemo, a) THEN Frac(18, 10)
    ELSE IF Includes(cmembership, cmemo) \/ Includes(cmemo, cmembership) THEN Frac(15, 10)
    ELSE jaccard(SplitWords(cmembership, 1, ""), SplitWords(cmemo, 1, ""))

\* the score of each candidate as the claim states it
ClaimScores(attendance, payments, cands, aliases) ==
    [i \in cands |->
        FracAdd(ClaimDateScore(parseDate(KeyDate(attendance)), parseDate(payments[i]["Date"])),
                ClaimTextScore(canonicalize(payments[i]["Memo"]),
                               { canonicalize(a) : a \in aliases },
                               canonicalize(attendance["Membership Name"])))]

ClaimChoice(cands, score) ==
    IF \E i \in cands : FracGe(score[i], Frac(11, 10))
    THEN MinOf({ i \in cands : \A j \in cands : FracGe(score[i], score[j]) })
    ELSE NoPayment

\* C10: null without a parseable attendance date; otherwise the best-scoring
\* payment of the same customer with a parseable date (first of equal
\* scores) if its score is >= 1.1, else null
PaymentMatching ==
    fout /= NoResult =>
        IF parseDate(KeyDate(fin.attendance)) = NoDate
        THEN fout.payment = NoPayment
        ELSE /\ fout.payment =
                  ClaimChoice(
                      { i \in 1..Len(fin.payments) :
                          /\ normalizeCustomerName(fin.payments[i]["Customer"])
                               = normalizeCustomerName(fin.attendance["Customer"])
                          /\ parseDate(fin.payments[i]["Date"]) /= NoDate },
                      ClaimScores(fin.attendance, fin.payments,
                          { i \in 1..Len(fin.payments) :
                              /\ normalizeCustomerName(fin.payments[i]["Customer"])
                                   = normalizeCustomerName(fin.attendance["Customer"])
                              /\ parseDate(fin.payments[i]["Date"]) /= NoDate },
                          paymentAliasesOf(fin.rules,
                              classifySessionType(fin.attendance["Offering Type Name"]))))
             /\ fout.payment /= NoPayment =>
                  normalizeCustomerName(fin.payments[fout.payment]["Customer"])
                    = normalizeCustomerName(fin.attendance["Customer"])

\* a payment within 7 days was preferred to an earlier-listed weaker one of
\* the same customer, with another customer's payment in the list skipped
PaymentMatchingWitness ==
    /\ fout /= NoResult
    /\ fin.attendance["Event Starts At"] = "2024-03-03T10:00:00Z"
    /\ fin.attendance["Offering Type Name"] = "KIDS COMBAT"
    /\ Len(fin.payments) = 2
    /\ fin.payments[1]["Memo"] = "10 pack"
    /\ fin.payments[2]["Memo"] = "5 pack"
    /\ fout.payment = 2

(***************************************************************************)
(* Pure-function specification: findApplicableDiscount                     *)
(***************************************************************************)
MaxDiscounts == 2

DiscountOf(code, name, active) ==
    ("discount_code" :> code) @@ ("name" :> name)
    @@ ("applicable_percentage" :> "50") @@ ("coach_payment_type" :> "partial")
    @@ ("match_type" :> "contains") @@ ("active" :> active)

DiscountPool ==
    { DiscountOf("SUMMER", "Summer", "TRUE"),
      DiscountOf("summer", "Summer of last year", ""),
      DiscountOf("discount", "Generic", "TRUE"),
      DiscountOf("discount", "Generic, switched off", "FALSE"),
      DiscountOf("discount", "Generic, flag left empty", ""),
      DiscountOf("", "No code", "TRUE") }

RECURSIVE DiscountLists(_)
DiscountLists(n) ==
    IF n = 0 THEN {<<>>}
    ELSE DiscountLists(n - 1) \cup
         { Append(l, d) : l \in { x \in DiscountLists(n - 1) : Len(x) = n - 1 },
                          d \in DiscountPool }

DiscountPayments ==
    { Null,
      PaymentOf("2024-03-01", "Kaia", "Summer camp", "10", "INV1"),
      PaymentOf("2024-03-01", "Kaia", "50% DISCOUNT", "10", "INV2"),
      PaymentOf("2024-03-01", "Kaia", "refund", "-5", "INV3"),
      PaymentOf("2024-03-01", "Kaia", "class", "10", "INV4") }

InitDisc ==
    /\ fin \in { [payment |-> p, discounts |-> l] :
                    p \in DiscountPayments, l \in DiscountLists(MaxDiscounts) }
    /\ fout = NoResult
    /\ EngineIdle

FindDiscount ==
    /\ fout = NoResult
    /\ fout' = [discount |-> findApplicableDiscount(fin.payment, fin.discounts)]
    /\ UNCHANGED <<fin, engineVars>>

NextDisc == FindDiscount

SpecDisc == InitDisc /\ [][NextDisc]_vars

\* the discount the claim selects among the active discounts of the table
ClaimDiscount(payment, discounts) ==
    LET active == { i \in 1..Len(discounts) : IsActive(discounts[i]) }
        byCode == { i \in active :
                      /\ discounts[i]["discount_code"] /= ""
                      /\ Includes(toLowerCase(payment["Memo"]),
                                  toLowerCase(discounts[i]["discount_code"])) }
        generic == { i \in active : discounts[i]["discount_code"] = "discount" }
    IN  IF byCode /= {} THEN discounts[MinOf(byCode)]
        ELSE IF /\ \/ Includes(toLowerCase(payment["Memo"]), "discount")
                   \/ FloatOf(payment["Amount"]) < 0
                /\ generic /= {}
        THEN discounts[MinOf(generic)]
        ELSE Null

\* C11: null without a matched payment; otherwise the first active discount
\* whose code occurs in the memo without regard to case, else, for a memo
\* with 'discount' or a negative amount, the active discount with the code
\* 'discount', else null; an inactive discount is never returned
DiscountResolution ==
    fout /= NoResult =>
        /\ fin.payment = Null => fout.discount = Null
        /\ fin.payment /= Null => fout.discount = ClaimDiscount(fin.payment, fin.discounts)
        /\ fout.discount /= Null => IsActive(fout.discount)

(***************************************************************************)
(* Pure-function specification: processAttendanceRecord                    *)
(***************************************************************************)
RowRuleRow ==
    ("package_name" :> "5 Pack") @@ ("session_type" :> "Group")
    @@ ("price" :> "60") @@ ("unit_price" :> "15")
    @@ ("coach_percentage" :> "43.5") @@ ("bgm_percentage" :> "30%")
    @@ ("management_percentage" :> "8.5") @@ ("mfc_percentage" :> "18")
    @@ ("attendance_alias" :> "") @@ ("payment_memo_alias" :> "")

RowAttendances ==
    { AttendanceOf("Kaia", d, "5 Pack", o, "Coach", "Attended") :
        d \in {"2024-03-03T10:00:00Z", "n/a"},
        o \in {"KIDS COMBAT", "Private 1 to 1"} }

RowPaymentPool ==
    { PaymentOf("2024-03-03", "KAIA ", "5 Class Packs", "15", "INV1"),
      PaymentOf("2024-03-20", "Kaia", "boxing gloves", "12.5", "INV2"),
      PaymentOf("2024-03-08", "Kaia", "gloves", "12.5", "INV3"),
      PaymentOf("2024-03-03", "Bob", "5 Class Packs", "15", "INV4"),
      PaymentOf("2024-03-04", "Kaia", "5 pack discount", "7.5", "") }

RECURSIVE RowPaymentLists(_)
RowPaymentLists(n) ==
    IF n = 0 THEN {<<>>}
    ELSE RowPaymentLists(n - 1) \cup
         { Append(l, x) : l \in { y \in RowPaymentLists(n - 1) : Len(y) = n - 1 },
                          x \in RowPaymentPool }

InitRow ==
    /\ fin \in { [attendance |-> a, payments |-> l, rules |-> r,
                  discounts |-> << DiscountOf("discount", "Generic Discount", "TRUE") >>] :
                    a \in RowAttendances, l \in RowPaymentLists(MaxPayments),
                    r \in { <<>>, normalizeRules(<< RowRuleRow >>) } }
    /\ fout = NoResult
    /\ EngineIdle

ProcessRecord ==
    /\ fout = NoResult
    /\ fout' = [row |-> processAttendanceRecord(fin.attendance, fin.payments, fin.rules,
                                                fin.discounts, 0)]
    /\ UNCHANGED <<fin, engineVars>>

NextRow == ProcessRecord

SpecRow == InitRow /\ [][NextRow]_vars

\* the payments of the customer of the attendance that have a valid date
ClaimCandidates(attendance, payments) ==
    { i \in 1..Len(payments) :
        /\ normalizeCustomerName(payments[i]["Customer"])
             = normalizeCustomerName(attendance["Customer"])
        /\ parseDate(payments[i]["Date"]) /= NoDate }

\* the payment that is accepted for the attendance, NoPayment for none
ClaimAccepted(attendance, payments, rules) ==
    IF parseDate(KeyDate(attendance)) = NoDate THEN NoPayment
    ELSE ClaimChoice(ClaimCandidates(attendance, payments),
                     ClaimScores(attendance, payments,
                                 ClaimCandidates(attendance, payments),
                                 paymentAliasesOf(rules,
                                     classifySessionType(attendance["Offering Type Name"]))))

\* C14: a built row is 'Verified' exactly when a payment was accepted for
\* its attendance, and without one it is 'Not Verified' with amount 0 and
\* empty invoiceNumber and paymentDate
UnmatchedAttendance ==
    fout /= NoResult =>
        /\ fout.row.verificationStatus = "Verified"
             <=> ClaimAccepted(fin.attendance, fin.payments, fin.rules) /= NoPayment
        /\ ClaimAccepted(fin.attendance, fin.payments, fin.rules) = NoPayment
             => /\ fout.row.verificationStatus = "Not Verified"
                /\ fout.row.amount = 0
                /\ fout.row.invoiceNumber = ""
                /\ fout.row.paymentDate = ""

\* a record whose customer has a payment within 7 days without any text
\* similarity, and one beyond 7 days, was built as 'Not Verified'
UnmatchedAttendanceWitness ==
    /\ fout /= NoResult
    /\ fin.attendance["Event Starts At"] = "2024-03-03T10:00:00Z"
    /\ Len(fin.payments) = 2
    /\ fin.payments[1]["Memo"] = "gloves"
    /\ fin.payments[2]["Memo"] = "boxing gloves"
    /\ fout.row.verificationStatus = "Not Verified"
    /\ fout.row.amount = 0

\* num / den rounded to the nearest integer, a half away from zero
HalfAwayFromZero(num, den) ==
    IF num >= 0 THEN (2 * num + den) \div (2 * den)
    ELSE 0 - ((2 * (0 - num) + den) \div (2 * den))

\* the rule resolved for the attendance of the row, Null for none
RowRule ==
    RuleAt(fin.rules,
           findMatchingRule(getField(fin.attendance,
                                     <<"Membership Name", "Membership", "MembershipName">>),
                            classifySessionType(GetS(fin.attendance, "Offering Type Name")),
                            fin.rules))

\* the four percentages of the statement: of the rule, or of the category
RowPercentages ==
    IF RowRule = Null
    THEN DefaultPercentages(classifySessionType(GetS(fin.attendance, "Offering Type Name")))
    ELSE [coach |-> RowRule.coach_percentage, bgm |-> RowRule.bgm_percentage,
          management |-> RowRule.management_percentage, mfc |-> RowRule.mfc_percentage]

\* C19: each of the four amounts of a built row is the price that is split
\* times the percentage over 100, rounded to two decimals with a half away
\* from zero, the percentages being those of the resolved rule or, without
\* one, of the category
SplitRoundedHalfAway ==
    fout /= NoResult =>
        /\ fout.row.coachAmount
             = HalfAwayFromZero(fout.row.discountedSessionPrice * RowPercentages.coach, 10000)
        /\ fout.row.bgmAmount
             = HalfAwayFromZero(fout.row.discountedSessionPrice * RowPercentages.bgm, 10000)
        /\ fout.row.managementAmount
             = HalfAwayFromZero(fout.row.discountedSessionPrice * RowPercentages.management,
                                10000)
        /\ fout.row.mfcAmount
             = HalfAwayFromZero(fout.row.discountedSessionPrice * RowPercentages.mfc, 10000)

(***************************************************************************)
(* Pure-function specification: calculateDiscountedSessionPrice            *)
(***************************************************************************)
\* the rule of the row with this unit price cell, Null for no rule
PriceRules ==
    {Null} \cup { normalizeRules(<< [RowRuleRow EXCEPT !["unit_price"] = u] >>)[1] :
                    u \in {"15", "10", "0", ""} }

\* the discounts: every percentage cell with every type cell
PriceDiscounts ==
    {Null} \cup { [DiscountOf("discount", "Generic", "TRUE") EXCEPT
                      !["applicable_percentage"] = p, !["coach_payment_type"] = ty] :
                    p \in {"50", "100", "0", "", "50%"},
                    ty \in {"partial", "free", "full", "", "Free", "half"} }

PriceAmounts == {0, 750, 1250}

InitPrice ==
    /\ fin \in { [baseAmount |-> a, rule |-> r, discountInfo |-> d] :
                    a \in PriceAmounts, r \in PriceRules, d \in PriceDiscounts }
    /\ fout = NoResult
    /\ EngineIdle

DiscountPrice ==
    /\ fout = NoResult
    /\ fout' = [price |-> calculateDiscountedSessionPrice(fin.baseAmount, fin.rule,
                                                          fin.discountInfo)]
    /\ UNCHANGED <<fin, engineVars>>

NextPrice == DiscountPrice

SpecPrice == InitPrice /\ [][NextPrice]_vars

\* the base price of the statement
ClaimBase(baseAmount, rule) ==
    IF rule /= Null /\ rule.unit_price > 0 THEN rule.unit_price ELSE baseAmount

\* the price of the statement for a discount of this type, in ten
\* thousandths: 0 for free, the base for full, base * (1 - pct / 100) for
\* partial with pct > 0, the base in every other case
ClaimPrice(base, type, pct) ==
    IF type = "free" THEN 0
    ELSE IF type = "full" THEN base * 10000
    ELSE IF type = "partial" /\ pct > 0 THEN base * (10000 - pct)
    ELSE base * 10000

\* the price returned, in ten thousandths
PriceReturned == fout.price.num * (10000 \div fout.price.den)

\* the statement with the type the discount holds, in lower case: a
\* discount without a type is one of the other cases and leaves the base
DiscountedPriceByTypeHeld ==
    fout /= NoResult =>
        PriceReturned =
            IF fin.discountInfo = Null THEN ClaimBase(fin.baseAmount, fin.rule) * 10000
            ELSE ClaimPrice(ClaimBase(fin.baseAmount, fin.rule),
                            toLowerCase(GetS(fin.discountInfo, "coach_payment_type")),
                            NumberOrZero(GetS(fin.discountInfo, "applicable_percentage")))

\* C18: the base is the unit price of the rule when there is a rule and its
\* unit price is positive, otherwise the amount of the payment; the price is
\* the base without a discount, and with a discount it follows the type in
\* lower case, a missing type being 'partial': 0 for free, the base for
\* full, base * (1 - pct / 100) for partial with pct > 0, the base otherwise
DiscountedPrice ==
    fout /= NoResult =>
        PriceReturned =
            IF fin.discountInfo = Null THEN ClaimBase(fin.baseAmount, fin.rule) * 10000
            ELSE ClaimPrice(ClaimBase(fin.baseAmount, fin.rule),
                            toLowerCase(OrS(GetS(fin.discountInfo, "coach_payment_type"),
                                            "partial")),
                            NumberOrZero(GetS(fin.discountInfo, "applicable_percentage")))

\* a discount of 50 percent without a type has halved the unit price of the
\* rule, whatever the payment was
DiscountedPriceWitness ==
    /\ fout /= NoResult
    /\ fin.rule /= Null
    /\ fin.rule.unit_price = 1500
    /\ fin.baseAmount = 1250
    /\ fin.discountInfo /= Null
    /\ GetS(fin.discountInfo, "coach_payment_type") = ""
    /\ GetS(fin.discountInfo, "applicable_percentage") = "50"
    /\ fout.price = TimesFactor(1500, 5000)

(***************************************************************************)
(* The reconciliation engine: verifyAttendanceData over the spreadsheet.   *)
(* readSheet returns the rows of a sheet as row objects keyed by the       *)
(* headers they were written under; writeSheet replaces the whole sheet.   *)
(***************************************************************************)
MASTER_SHEET == "payment_calc_detail"
ATTENDANCE_SHEET == "attendance"
PAYMENTS_SHEET == "Payments"
RULES_SHEET == "rules"
DISCOUNTS_SHEET == "discounts"

readSheet(name) == sheets[name]

writeSheet(name, data) == [sheets EXCEPT ![name] = data]

\* the outcome of a call of the store: the rows it returned, or the message
\* of the error it threw
Returned(rows) == [error |-> "", rows |-> rows]
Thrown(message) == [error |-> message, rows |-> <<>>]

\* readSheet while the sheets of the set failing cannot be read
readSheetFrom(name, failing) ==
    IF name \in failing THEN Thrown("Unable to read " \o name) ELSE Returned(readSheet(name))

\* a rejected read left as it is
Uncaught(outcome) == outcome

\* promise.catch(() => []): a rejected read becomes the empty list
catchEmpty(outcome) == IF outcome.error = "" THEN outcome ELSE Returned(<<>>)

\* the first error of the reads Promise.all waits for, "" when none rejects
FirstError(outcomes) ==
    IF \A i \in 1..Len(outcomes) : outcomes[i].error = "" THEN ""
    ELSE outcomes[FirstIndex({ i \in 1..Len(outcomes) : outcomes[i].error /= "" })].error

\* the ledger as loadExistingMasterData returns it from the outcome of its
\* read: the normalized rows, or no rows when the read threw
ExistingMasterOf(outcome) ==
    IF outcome.error = "" THEN [i \in 1..Len(outcome.rows) |-> normalizeMasterRow(outcome.rows[i])]
    ELSE <<>>

loadExistingMasterData == ExistingMasterOf(readSheetFrom(MASTER_SHEET, {}))

\* the error verifyAttendanceData throws for the error it caught
BareCause(message) == message

WrapError(message) ==
    "Attendance verification failed: " \o (IF message = "" THEN "Unknown error" ELSE message)

calculateSummary(rows) ==
    LET verifiedRecords == Cardinality({ i \in 1..Len(rows) :
                                          rows[i].verificationStatus = "Verified" })
    IN  [totalRecords |-> Len(rows),
         verifiedRecords |-> verifiedRecords,
         unverifiedRecords |-> Len(rows) - verifiedRecords,
         verificationRate |-> IF Len(rows) > 0 THEN Frac(verifiedRecords * 100, Len(rows))
                              ELSE Frac(0, 1),
         newRecordsAdded |-> 0]

MaxRuns == 2

\* the tables of the model: two visits of one customer, the payment of
\* each, the second one discounted, one group rule, at most one discount
RuleRow ==
    ("package_name" :> "Junior Single - Pay As You Go") @@ ("session_type" :> "Group")
    @@ ("price" :> "60") @@ ("unit_price" :> "15")
    @@ ("coach_percentage" :> "43.5") @@ ("bgm_percentage" :> "30%")
    @@ ("management_percentage" :> "8.5") @@ ("mfc_percentage" :> "18")
    @@ ("attendance_alias" :> "") @@ ("payment_memo_alias" :> "")

DiscountRow ==
    ("discount_code" :> "discount") @@ ("name" :> "Generic Discount")
    @@ ("applicable_percentage" :> "50") @@ ("coach_payment_type" :> "partial")
    @@ ("match_type" :> "contains") @@ ("active" :> "TRUE")

SheetsOf(invoice, discounts) ==
    (ATTENDANCE_SHEET :>
        << AttendanceOf("Kaia Attard", "2024-03-01T10:00:00Z",
                        "Junior Single - Pay As You Go", "KIDS COMBAT", "Sam", "Attended"),
           AttendanceOf("Kaia Attard", "2024-03-05T10:00:00Z",
                        "Junior Single - Pay As You Go", "KIDS COMBAT", "Sam", "Attended") >>)
    @@ (PAYMENTS_SHEET :>
        << PaymentOf("2024-03-01", "Kaia Attard", "Junior Single - Pay as You Go", "15", "INV1"),
           PaymentOf("2024-03-05", "Kaia Attard", "Junior Single - Pay as You Go discount",
                     "7.5", invoice) >>)
    @@ (RULES_SHEET :> << RuleRow >>)
    @@ (DISCOUNTS_SHEET :> discounts)
    @@ (MASTER_SHEET :> <<>>)

\* the requests of the model: the whole sheet, the first visit, the second
\* visit, and a range that holds the second payment but no visit
Requests ==
    { [fromDate |-> w[1], toDate |-> w[2], forceReverify |-> f] :
        w \in { <<"", "">>, <<"2024-03-01", "2024-03-02">>,
                <<"2024-03-04", "2024-03-06">>, <<"2024-03-02", "2024-03-05">> },
        f \in BOOLEAN }

Init ==
    /\ fin = NoResult
    /\ fout = NoResult
    /\ sheets \in { SheetsOf(invoice, discounts) :
                      invoice \in {"INV2", ""}, discounts \in {<<>>, << DiscountRow >>} }
    /\ now = 0
    /\ pc = "idle"
    /\ run = NoResult
    /\ last = NoResult
    /\ runs = 0

\* POST /verify: verifyAttendanceData(params) is called
Verify(params) ==
    /\ pc = "idle"
    /\ runs < MaxRuns
    /\ pc' = "loading"
    /\ runs' = runs + 1
    /\ now' = now + 1
    /\ run' = [params |-> params, before |-> readSheet(MASTER_SHEET),
               attendance |-> <<>>, payments |-> <<>>, rules |-> <<>>, discounts |-> <<>>,
               loaded |-> <<>>, existingMaster |-> <<>>, merged |-> <<>>,
               allMasterRows |-> <<>>, newMasterRows |-> <<>>, processed |-> <<>>,
               wrote |-> FALSE, summary |-> NoResult, failed |-> {}, error |-> ""]
    /\ UNCHANGED <<funVars, sheets, last>>

\* the reads of loadAllData have ended with these outcomes: Promise.all
\* rejects with the first error, otherwise rules are normalized and
\* attendance and payments filtered
LoadOutcomes(failing, attendance, payments, rules, discounts) ==
    IF FirstError(<< attendance, payments, rules, discounts >>) /= ""
    THEN /\ pc' = "failed"
         /\ run' = [run EXCEPT !.failed = failing,
                               !.error = WrapError(FirstError(<< attendance, payments,
                                                                rules, discounts >>))]
    ELSE /\ pc' = "matching"
         /\ run' = [run EXCEPT
                      !.failed = failing,
                      !.attendance = filterAttendanceByDate(attendance.rows,
                                                            run.params.fromDate, run.params.toDate),
                      !.payments = filterPaymentsByDate(payments.rows,
                                                        run.params.fromDate, run.params.toDate),
                      !.rules = normalizeRules(rules.rows),
                      !.discounts = discounts.rows]

\* lines 96 to 100 over a store where the sheets of failing cannot be read
LoadFrom(failing) ==
    /\ pc = "loading"
    /\ LoadOutcomes(failing,
                    catchEmpty(readSheetFrom(ATTENDANCE_SHEET, failing)),
                    catchEmpty(readSheetFrom(PAYMENTS_SHEET, failing)),
                    catchEmpty(readSheetFrom(RULES_SHEET, failing)),
                    catchEmpty(readSheetFrom(DISCOUNTS_SHEET, failing)))
    /\ UNCHANGED <<funVars, sheets, now, last, runs>>

\* lines 96 to 100: the four reads have returned
LoadAllData == LoadFrom({})

\* lines 105 to 139 over a store where the sheets of failing cannot be
\* read: the ledger has been loaded; every record is matched, upserted and
\* the discounts are post-processed
MatchFrom(failing) ==
    /\ pc = "matching"
    /\ pc' = "saving"
    /\ \E existing \in { ExistingMasterOf(readSheetFrom(MASTER_SHEET, failing)) } :
         \E r \in { Reconcile(run.params, run.attendance, run.payments, run.rules,
                              run.discounts, existing, now) } :
           run' = [run EXCEPT !.failed = run.failed \cup failing,
                              !.loaded = readSheetFrom(MASTER_SHEET, failing).rows,
                              !.existingMaster = existing,
                              !.merged = r.merged,
                              !.allMasterRows = r.allMasterRows,
                              !.newMasterRows = r.newMasterRows,
                              !.processed = r.processed]
    /\ UNCHANGED <<funVars, sheets, now, last, runs>>

\* lines 105 to 139: the ledger has been read
Match == MatchFrom({})

\* lines 142 to 145, the condition holds: the ledger is written
Save ==
    /\ pc = "saving"
    /\ run.params.forceReverify \/ Len(run.newMasterRows) > 0
    /\ sheets' = writeSheet(MASTER_SHEET, saveMasterData(run.allMasterRows))
    /\ run' = [run EXCEPT !.wrote = TRUE]
    /\ pc' = "done"
    /\ UNCHANGED <<funVars, now, last, runs>>

\* lines 142 to 145, the condition fails: nothing is written
SkipSave ==
    /\ pc = "saving"
    /\ ~(run.params.forceReverify \/ Len(run.newMasterRows) > 0)
    /\ pc' = "done"
    /\ UNCHANGED <<funVars, sheets, now, run, last, runs>>

\* lines 148 to 155: the summary is computed and the result returned
Return ==
    /\ pc = "done"
    /\ pc' = "idle"
    /\ run' = [run EXCEPT !.summary = calculateSummary(run.allMasterRows)]
    /\ last' = run'
    /\ UNCHANGED <<funVars, sheets, now, runs>>

\* lines 142 to 145, the condition holds and the write of the ledger throws:
\* the sheet stays as it was, the catch of line 157 wraps the error
SaveFails(message) ==
    /\ pc = "saving"
    /\ run.params.forceReverify \/ Len(run.newMasterRows) > 0
    /\ run' = [run EXCEPT !.failed = run.failed \cup {"write"},
                          !.error = WrapError(message)]
    /\ pc' = "failed"
    /\ UNCHANGED <<funVars, sheets, now, last, runs>>

\* the catch when it goes back to the write instead of throwing
ThrowAndRetry ==
    /\ pc = "failed"
    /\ pc' = "saving"
    /\ UNCHANGED <<funVars, sheets, now, run, last, runs>>

\* lines 157 to 160: the error is thrown to the caller
Throw ==
    /\ pc = "failed"
    /\ pc' = "idle"
    /\ last' = run
    /\ UNCHANGED <<funVars, sheets, now, run, runs>>

Next ==
    \/ \E params \in Requests : Verify(params)
    \/ LoadAllData
    \/ Match
    \/ Save
    \/ SkipSave
    \/ Return

Spec == Init /\ [][Next]_vars

(***************************************************************************)
(* The engine over a store whose reads and writes can fail                 *)
(***************************************************************************)
\* the sheets a call of loadAllData cannot read: none, or one of the four
ReadFaults == {{}, {ATTENDANCE_SHEET}, {PAYMENTS_SHEET}, {RULES_SHEET}, {DISCOUNTS_SHEET}}

\* the message of the error a write of the ledger throws
WriteErrors == {"Quota exceeded"}

FaultRequests == { r \in Requests : r.fromDate = "" /\ r.toDate = "" }

InitFaults ==
    /\ fin = NoResult
    /\ fout = NoResult
    /\ sheets = SheetsOf("INV2", << DiscountRow >>)
    /\ now = 0
    /\ pc = "idle"
    /\ run = NoResult
    /\ last = NoResult
    /\ runs = 0

NextFaults ==
    \/ \E params \in FaultRequests : Verify(params)
    \/ \E failing \in ReadFaults : LoadFrom(failing)
    \/ \E failing \in {{}, {MASTER_SHEET}} : MatchFrom(failing)
    \/ Save
    \/ \E message \in WriteErrors : SaveFails(message)
    \/ SkipSave
    \/ Throw
    \/ Return

SpecFaults == InitFaults /\ [][NextFaults]_vars

(***************************************************************************)
(* The manual verification route, POST /manual-verify, next to the runs.   *)
(* fin holds the request in flight with the ledger it loaded, fout the     *)
(* last response.  The route and the runs share the master sheet and take  *)
(* no lock.                                                                *)
(***************************************************************************)
\* masterData.map(...): the row of the key becomes 'Verified' with the
\* invoice number and a new updatedAt
ManualUpdate(masterData, uniqueKey, invoiceNumber, clock) ==
    [i \in 1..Len(masterData) |->
        IF masterData[i].uniqueKey = uniqueKey
        THEN [masterData[i] EXCEPT !.verificationStatus = "Verified",
                                   !.invoiceNumber = invoiceNumber,
                                   !.updatedAt = toISOString(clock)]
        ELSE masterData[i]]

\* the request arrives: 400 without a key or an invoice number, otherwise
\* the ledger is loaded
ManualVerify(body) ==
    /\ fin = NoResult
    /\ runs < MaxRuns
    /\ runs' = runs + 1
    /\ now' = now + 1
    /\ IF body.uniqueKey = "" \/ body.invoiceNumber = ""
       THEN /\ fout' = [status |-> 400, body |-> body]
            /\ fin' = fin
       ELSE /\ fin' = [body |-> body, loaded |-> readSheet(MASTER_SHEET),
                       masterData |-> loadExistingMasterData]
            /\ fout' = fout
    /\ UNCHANGED <<sheets, pc, run, last>>

\* the updated rows are saved and the success is answered
ManualSave ==
    /\ fin /= NoResult
    /\ \E written \in { saveMasterData(ManualUpdate(fin.masterData, fin.body.uniqueKey,
                                                     fin.body.invoiceNumber, now)) } :
          /\ sheets' = writeSheet(MASTER_SHEET, written)
          /\ fout' = [status |-> 200, body |-> fin.body, loaded |-> fin.loaded,
                      before |-> readSheet(MASTER_SHEET), written |-> written]
    /\ fin' = NoResult
    /\ UNCHANGED <<now, pc, run, last, runs>>

\* two visits of one customer on one day, the first one twice in the
\* table, one payment of that customer, and a visit of a customer who has
\* not paid
ManualAttendance ==
    << AttendanceOf("Kaia Attard", "2024-03-01T10:00:00Z",
                    "Junior Single - Pay As You Go", "KIDS COMBAT", "Sam", "Attended"),
       AttendanceOf("Kaia Attard", "2024-03-01T10:00:00Z",
                    "Junior Single - Pay As You Go", "KIDS COMBAT", "Sam", "Late"),
       AttendanceOf("Kaia Attard", "2024-03-01T11:00:00Z",
                    "Junior Single - Pay As You Go", "KIDS COMBAT", "Sam", "Attended"),
       AttendanceOf("Bob Borg", "2024-03-02T10:00:00Z",
                    "Junior Single - Pay As You Go", "KIDS COMBAT", "Sam", "Attended") >>

ManualPayments ==
    << PaymentOf("2024-03-01", "Kaia Attard", "Junior Single - Pay as You Go", "15", "INV1") >>

\* the ledger a first run over the whole tables has written at tick 1
LedgerOfFirstRun ==
    saveMasterData(Reconcile([fromDate |-> "", toDate |-> "", forceReverify |-> FALSE],
                             ManualAttendance, ManualPayments, normalizeRules(<< RuleRow >>),
                             <<>>, <<>>, 1).allMasterRows)

ManualSheets(ledger) ==
    (ATTENDANCE_SHEET :> ManualAttendance)
    @@ (PAYMENTS_SHEET :> ManualPayments)
    @@ (RULES_SHEET :> << RuleRow >>)
    @@ (DISCOUNTS_SHEET :> <<>>)
    @@ (MASTER_SHEET :> ledger)

\* the key of the visit that has no payment
UnpaidKey == generateUniqueKey(ManualAttendance[4])

\* the bodies of the manual requests: the unpaid visit with an invoice
\* number, the paid visit with another invoice number, and a body without
\* an invoice number
ManualBodies ==
    { [uniqueKey |-> UnpaidKey, invoiceNumber |-> "MAN1"],
      [uniqueKey |-> generateUniqueKey(ManualAttendance[1]), invoiceNumber |-> "MAN2"],
      [uniqueKey |-> UnpaidKey, invoiceNumber |-> ""] }

\* the runs over the whole tables and over a range without any record
ManualRequests ==
    { [fromDate |-> w[1], toDate |-> w[2], forceReverify |-> f] :
        w \in { <<"", "">>, <<"2024-03-10", "2024-03-11">> }, f \in BOOLEAN }

InitManual ==
    /\ fin = NoResult
    /\ fout = NoResult
    /\ \/ sheets = ManualSheets(<<>>) /\ now = 0
       \/ sheets = ManualSheets(LedgerOfFirstRun) /\ now = 1
    /\ pc = "idle"
    /\ run = NoResult
    /\ last = NoResult
    /\ runs = 0

NextManual ==
    \/ \E params \in ManualRequests : Verify(params)
    \/ LoadAllData
    \/ Match
    \/ Save
    \/ SkipSave
    \/ Return
    \/ \E body \in ManualBodies : ManualVerify(body)
    \/ ManualSave

SpecManual == InitManual /\ [][NextManual]_vars

(***************************************************************************)
(* Properties of the engine                                                *)
(***************************************************************************)
\* a row without its two time stamps
WithoutStamps(r) == [r EXCEPT !.createdAt = "", !.updatedAt = ""]

RowSet(rows) == { WithoutStamps(rows[i]) : i \in 1..Len(rows) }

\* the rows of the master sheet without their two time stamp cells
SheetRowSet(rows) ==
    { [rows[i] EXCEPT !["CreatedAt"] = "", !["UpdatedAt"] = ""] : i \in 1..Len(rows) }

\* the run has computed its result
Computed == pc \in {"saving", "done"}

\* C1: a run with forceReverify that follows a run with forceReverify and
\* the same date range returns and persists the row set the first returned
\* and persisted (time stamps apart)
IdempotentReconciliation ==
    (pc = "done" /\ last /= NoResult /\ run.params.forceReverify
       /\ last.params = run.params)
    => /\ RowSet(run.allMasterRows) = RowSet(last.allMasterRows)
       /\ SheetRowSet(readSheet(MASTER_SHEET)) = SheetRowSet(run.before)

\* the attendance of a ledger row lies outside the date range of the request
OutsideRange(row, params) ==
    ~InDateRange(parseDate(row.eventStartsAt), params.fromDate, params.toDate)

\* C2: in a run with a date range, every ledger row whose attendance lies
\* outside the range is in the result, and in the ledger the run writes,
\* with every field as it was loaded
OutOfWindowPreservation ==
    (Computed /\ (run.params.fromDate /= "" \/ run.params.toDate /= ""))
    => \A i \in 1..Len(run.existingMaster) :
          OutsideRange(run.existingMaster[i], run.params)
          => /\ \E j \in 1..Len(run.allMasterRows) :
                   run.allMasterRows[j] = run.existingMaster[i]
             /\ run.wrote
                => \E j \in 1..Len(readSheet(MASTER_SHEET)) :
                      normalizeMasterRow(readSheet(MASTER_SHEET)[j]) = run.existingMaster[i]

\* the rule the run resolves for an attendance record, Null for none
RuleOfRecord(attendance) ==
    LET r == findMatchingRule(getField(attendance, <<"Membership Name", "Membership",
                                                    "MembershipName">>),
                              classifySessionType(GetS(attendance, "Offering Type Name")),
                              run.rules)
    IN  IF r = NoRule THEN Null ELSE run.rules[r]

\* C3: discount post-processing leaves packagePrice and sessionPrice of
\* every row as they were, and a row is built with the price and the unit
\* price of its rule, whatever discount its payment carries
BasePricesNotDiscounted ==
    Computed
    => /\ Len(run.allMasterRows) = Len(run.merged)
       /\ \A i \in 1..Len(run.merged) :
             /\ run.allMasterRows[i].packagePrice = run.merged[i].packagePrice
             /\ run.allMasterRows[i].sessionPrice = run.merged[i].sessionPrice
       /\ \A a \in 1..Len(run.attendance) : \A i \in 1..Len(run.merged) :
             (/\ run.merged[i].uniqueKey = generateUniqueKey(run.attendance[a])
              /\ \E k \in 1..Len(run.processed) : run.processed[k] = run.merged[i].uniqueKey)
             => LET rule == RuleOfRecord(run.attendance[a])
                IN  /\ run.merged[i].packagePrice = IF rule = Null THEN 0 ELSE rule.price
                    /\ run.merged[i].sessionPrice = IF rule = Null THEN 0 ELSE rule.unit_price

\* a row that carries rule prices was built under a discount and rescaled
\* by post-processing
BasePricesWitness ==
    /\ pc = "done"
    /\ \E i \in 1..Len(run.merged) :
          /\ run.merged[i].packagePrice > 0
          /\ run.merged[i].sessionPrice > 0
          /\ run.merged[i].discountedSessionPrice < run.merged[i].sessionPrice
          /\ \E k \in 1..Len(run.processed) : run.processed[k] = run.merged[i].uniqueKey
          /\ run.allMasterRows[i].coachAmount < run.merged[i].coachAmount

\* the fields that post-processing may write
RescaledFields(r) ==
    [r EXCEPT !.discount = "", !.discountPercentage = 0, !.discountedSessionPrice = 0,
              !.coachAmount = 0, !.bgmAmount = 0, !.managementAmount = 0, !.mfcAmount = 0]

\* the invoice of the row matches a discount in this run
InvoiceMatched(r) ==
    /\ Len(run.discounts) > 0
    /\ Len(run.payments) > 0
    /\ Trim(r.invoiceNumber) /= ""
    /\ Trim(r.invoiceNumber) \in DOMAIN invoiceToDiscount(run.payments, run.discounts)

\* C4: post-processing changes, in a row whose invoice matches a discount,
\* only the discount name and percentage, the discounted session price and
\* the four split amounts, and changes nothing in any other row
DiscountFrame ==
    Computed
    => \A i \in 1..Len(run.merged) :
          IF InvoiceMatched(run.merged[i])
          THEN RescaledFields(run.allMasterRows[i]) = RescaledFields(run.merged[i])
          ELSE run.allMasterRows[i] = run.merged[i]

\* the keys the master sheet holds in its UniqueKey column
PersistedKeys(rows) == { GetS(rows[i], "UniqueKey") : i \in 1..Len(rows) }

\* C5: without forceReverify, a filtered record whose key the persisted
\* ledger holds is not processed and not counted as new
SkipAlreadyReconciled ==
    (Computed /\ ~run.params.forceReverify)
    => \A a \in 1..Len(run.attendance) :
          generateUniqueKey(run.attendance[a]) \in PersistedKeys(run.loaded)
          => /\ \A k \in 1..Len(run.processed) :
                   run.processed[k] /= generateUniqueKey(run.attendance[a])
             /\ \A k \in 1..Len(run.newMasterRows) :
                   run.newMasterRows[k].uniqueKey /= generateUniqueKey(run.attendance[a])

\* a row of the result is new or differs from the row that was loaded
AddedOrChanged ==
    \E i \in 1..Len(run.allMasterRows) :
       \A j \in 1..Len(run.existingMaster) :
          run.allMasterRows[i] /= run.existingMaster[j]

\* C6: the run writes the ledger exactly when forceReverify is set or a row
\* was added or changed; a write replaces the sheet by the merged rows, and
\* a run that does not write leaves the sheet as it was
PersistCondition ==
    pc = "done"
    => /\ run.wrote <=> (run.params.forceReverify \/ AddedOrChanged)
       /\ run.wrote => readSheet(MASTER_SHEET) = saveMasterData(run.allMasterRows)
       /\ ~run.wrote => readSheet(MASTER_SHEET) = run.before

\* the attendance, the payment and the rule of the full-price scenario
ScenarioAttendance ==
    AttendanceOf("Kaia Attard", "2024-03-01T10:00:00Z", "Junior Single - Pay As You Go",
                 "KIDS COMBAT", "Sam", "Attended")

ScenarioPayment ==
    PaymentOf("2024-03-01", "Kaia Attard", "Junior Single - Pay as You Go", "15", "INV1")

\* the run reconciles the record of the scenario against its payment and
\* its rule, without any discount
FullPriceRun ==
    /\ Computed
    /\ run.attendance = << ScenarioAttendance >>
    /\ run.payments = << ScenarioPayment >>
    /\ run.rules = normalizeRules(<< RuleRow >>)
    /\ run.discounts = <<>>
    /\ \E k \in 1..Len(run.processed) :
          run.processed[k] = generateUniqueKey(ScenarioAttendance)

\* C12: the full-price scenario yields a row with verificationStatus
\* 'Verified', sessionPrice 15, coachAmount 6.53, bgmAmount 4.5,
\* managementAmount 1.28, mfcAmount 2.7
FullPriceScenario ==
    FullPriceRun
    => \E i \in 1..Len(run.allMasterRows) :
          /\ run.allMasterRows[i].uniqueKey = generateUniqueKey(ScenarioAttendance)
          /\ run.allMasterRows[i].verificationStatus = "Verified"
          /\ run.allMasterRows[i].sessionPrice = 1500
          /\ run.allMasterRows[i].coachAmount = 653
          /\ run.allMasterRows[i].bgmAmount = 450
          /\ run.allMasterRows[i].managementAmount = 128
          /\ run.allMasterRows[i].mfcAmount = 270

\* the attendance and the payment of the partial-discount scenario, as the
\* tables of the model hold them: the visit of 2024-03-05 and its payment
DiscountedAttendance ==
    AttendanceOf("Kaia Attard", "2024-03-05T10:00:00Z", "Junior Single - Pay As You Go",
                 "KIDS COMBAT", "Sam", "Attended")

DiscountedPayment(invoice) ==
    PaymentOf("2024-03-05", "Kaia Attard", "Junior Single - Pay as You Go discount",
              "7.5", invoice)

\* the run reconciles the record of the scenario against the discounted
\* payment, with or without an invoice number, its rule and the discount
PartialDiscountRun ==
    /\ Computed
    /\ run.attendance = << DiscountedAttendance >>
    /\ run.payments \in { << DiscountedPayment(invoice) >> : invoice \in {"INV2", ""} }
    /\ run.rules = normalizeRules(<< RuleRow >>)
    /\ run.discounts = << DiscountRow >>
    /\ \E k \in 1..Len(run.processed) :
          run.processed[k] = generateUniqueKey(DiscountedAttendance)

\* C13: the partial-discount scenario yields, at the end of the run, a row
\* with discountedSessionPrice 7.5, coachAmount 3.26 and sessionPrice 15,
\* with and without an invoice number on the payment
PartialDiscountScenario ==
    PartialDiscountRun
    => \E i \in 1..Len(run.allMasterRows) :
          /\ run.allMasterRows[i].uniqueKey = generateUniqueKey(DiscountedAttendance)
          /\ run.allMasterRows[i].discountedSessionPrice = 750
          /\ run.allMasterRows[i].coachAmount = 326
          /\ run.allMasterRows[i].sessionPrice = 1500
\* the sheets loadAllData reads
InputSheets == {ATTENDANCE_SHEET, PAYMENTS_SHEET, RULES_SHEET, DISCOUNTS_SHEET}

\* the run has loaded its four inputs
Loaded == pc \in {"matching", "saving", "done"}

\* C16: a failed read of the attendance, payments, rules or discounts sheet
\* does not abort the run: the input is the empty list and the run goes on
\* to matching; a failed read of the ledger leaves the run with an empty
\* existing ledger; a run only fails when the write of the ledger failed
DegradedInputs ==
    /\ pc = "failed" => "write" \in run.failed
    /\ Loaded =>
         /\ ATTENDANCE_SHEET \in run.failed => run.attendance = <<>>
         /\ PAYMENTS_SHEET \in run.failed => run.payments = <<>>
         /\ RULES_SHEET \in run.failed => run.rules = <<>>
         /\ DISCOUNTS_SHEET \in run.failed => run.discounts = <<>>
    /\ (pc \in {"saving", "done"} /\ MASTER_SHEET \in run.failed)
         => /\ run.existingMaster = <<>>
            /\ Len(run.allMasterRows) = Len(run.processed)

\* a run that could not read the payments and then could not read the
\* ledger, which held a row, has completed with unverified rows only
DegradedInputsWitness ==
    /\ pc = "done"
    /\ run.failed = {PAYMENTS_SHEET, MASTER_SHEET}
    /\ Len(run.before) > 0
    /\ Len(run.allMasterRows) = 2
    /\ \A i \in 1..Len(run.allMasterRows) : run.allMasterRows[i].verificationStatus /= "Verified"

\* C17: a run whose write of the ledger failed ends with the error
\* 'Attendance verification failed: <cause>', has written nothing, and
\* leaves the ledger as it was when the run started; the error is thrown
\* to the caller without another attempt
FailureWithoutPartialPersistence ==
    /\ pc = "failed" =>
         /\ run.error = "Attendance verification failed: Quota exceeded"
         /\ ~run.wrote
         /\ readSheet(MASTER_SHEET) = run.before
    /\ (pc = "idle" /\ last /= NoResult /\ last.error /= "") =>
         /\ run = last
         /\ readSheet(MASTER_SHEET) = last.before
         /\ ~last.wrote
    /\ (pc \in {"done", "idle"} /\ run /= NoResult /\ ~run.wrote)
         => readSheet(MASTER_SHEET) = run.before

\* a forced run over a ledger of two rows has failed in its write
FailureWitness ==
    /\ pc = "idle"
    /\ last /= NoResult
    /\ last.error /= ""
    /\ last.params.forceReverify
    /\ Len(last.before) = 2
    /\ Len(last.allMasterRows) = 2
(***************************************************************************)
(* The engine over tables that hold records without a date                 *)
(***************************************************************************)
\* three visits of one customer, the second without a date, the third at
\* the first instant of 2024-03-05; a payment on the day of the first, a
\* payment without a date, and a payment on 2024-03-05
DatedSheets ==
    (ATTENDANCE_SHEET :>
        << AttendanceOf("Kaia Attard", "2024-03-01T10:00:00Z",
                        "Junior Single - Pay As You Go", "KIDS COMBAT", "Sam", "Attended"),
           AttendanceOf("Kaia Attard", "n/a",
                        "Junior Single - Pay As You Go", "KIDS COMBAT", "Sam", "Attended"),
           AttendanceOf("Kaia Attard", "2024-03-05T00:00:00Z",
                        "Junior Single - Pay As You Go", "KIDS COMBAT", "Sam", "Attended") >>)
    @@ (PAYMENTS_SHEET :>
        << PaymentOf("2024-03-01", "Kaia Attard", "Junior Single - Pay as You Go", "15", "INV1"),
           PaymentOf("n/a", "Kaia Attard", "Junior Single - Pay as You Go", "15", "INV9"),
           PaymentOf("2024-03-05", "Kaia Attard", "Junior Single - Pay as You Go", "15",
                     "INV2") >>)
    @@ (RULES_SHEET :> << RuleRow >>)
    @@ (DISCOUNTS_SHEET :> <<>>)
    @@ (MASTER_SHEET :> <<>>)

\* no range, a range whose bounds are the dates of two records, a lower
\* bound alone, a range whose lower bound is not a date, and a range that
\* holds no record
DateRequests ==
    { [fromDate |-> w[1], toDate |-> w[2], forceReverify |-> f] :
        w \in { <<"", "">>, <<"2024-03-01", "2024-03-05">>,
                <<"2024-03-02", "">>, <<"n/a", "2024-03-03">>,
                <<"2024-03-02", "2024-03-04">> },
        f \in BOOLEAN }

InitDates ==
    /\ fin = NoResult
    /\ fout = NoResult
    /\ sheets = DatedSheets
    /\ now = 0
    /\ pc = "idle"
    /\ run = NoResult
    /\ last = NoResult
    /\ runs = 0

NextDates ==
    \/ \E params \in DateRequests : Verify(params)
    \/ LoadAllData
    \/ Match
    \/ Save
    \/ SkipSave
    \/ Return

SpecDates == InitDates /\ [][NextDates]_vars

\* the date of the statement parses and lies between the bounds, a bound
\* that is missing or not a date leaving its side open
WithinBounds(dateStr, fromDate, toDate) ==
    /\ parseDate(dateStr) /= NoDate
    /\ parseDate(fromDate) /= NoDate => parseDate(fromDate) <= parseDate(dateStr)
    /\ parseDate(toDate) /= NoDate => parseDate(dateStr) <= parseDate(toDate)

\* the records of the two sheets that the statement keeps
AttendanceWithin(fromDate, toDate) ==
    SelectSeq(readSheet(ATTENDANCE_SHEET),
              LAMBDA a : WithinBounds(KeyDate(a), fromDate, toDate))

PaymentsWithin(fromDate, toDate) ==
    SelectSeq(readSheet(PAYMENTS_SHEET),
              LAMBDA p : WithinBounds(GetS(p, "Date"), fromDate, toDate))

\* the rows of the result that the run built
RowsBuilt ==
    { i \in 1..Len(run.allMasterRows) :
        \E k \in 1..Len(run.processed) : run.processed[k] = run.allMasterRows[i].uniqueKey }

\* every row the run built is the row of a record of these and carries the
\* invoice of a payment of these, or none
BuiltFrom(attendance, payments) ==
    \A i \in RowsBuilt :
        /\ \E k \in 1..Len(attendance) :
              generateUniqueKey(attendance[k]) = run.allMasterRows[i].uniqueKey
        /\ \/ run.allMasterRows[i].invoiceNumber = ""
           \/ \E k \in 1..Len(payments) :
                 GetS(payments[k], "Invoice") = run.allMasterRows[i].invoiceNumber

\* the statement for every request: the run processes exactly the records
\* whose date parses and lies within the bounds
OnlyDatedRecordsProcessed ==
    /\ Loaded =>
         /\ run.attendance = AttendanceWithin(run.params.fromDate, run.params.toDate)
         /\ run.payments = PaymentsWithin(run.params.fromDate, run.params.toDate)
    /\ Computed =>
         BuiltFrom(AttendanceWithin(run.params.fromDate, run.params.toDate),
                   PaymentsWithin(run.params.fromDate, run.params.toDate))

\* C20: when the request holds a fromDate or a toDate, the run processes
\* exactly the attendance and payment records whose date parses and lies
\* between the bounds, both inclusive, and the rows it builds come from
\* these records only; when it holds neither, the run processes every
\* record: an attendance without a date gets a row, a payment without a
\* date is still never matched
DateFiltering ==
    /\ (Loaded /\ (run.params.fromDate /= "" \/ run.params.toDate /= "")) =>
         /\ run.attendance = AttendanceWithin(run.params.fromDate, run.params.toDate)
         /\ run.payments = PaymentsWithin(run.params.fromDate, run.params.toDate)
    /\ (Computed /\ (run.params.fromDate /= "" \/ run.params.toDate /= "")) =>
         BuiltFrom(AttendanceWithin(run.params.fromDate, run.params.toDate),
                   PaymentsWithin(run.params.fromDate, run.params.toDate))
    /\ (Loaded /\ run.params.fromDate = "" /\ run.params.toDate = "") =>
         /\ run.attendance = readSheet(ATTENDANCE_SHEET)
         /\ run.payments = readSheet(PAYMENTS_SHEET)
    /\ (Computed /\ run.params.fromDate = "" /\ run.params.toDate = "") =>
         BuiltFrom(readSheet(ATTENDANCE_SHEET), PaymentsWithin("", ""))

\* a forced run over 2024-03-01 .. 2024-03-05 has built the rows of the
\* two dated visits, the second one at the very bound, each with its
\* payment, and no row for the visit without a date
DateFilteringWitness ==
    /\ pc = "done"
    /\ run.params = [fromDate |-> "2024-03-01", toDate |-> "2024-03-05",
                     forceReverify |-> TRUE]
    /\ Len(run.before) = 0
    /\ Len(run.attendance) = 2
    /\ Len(run.payments) = 2
    /\ Len(run.allMasterRows) = 2
    /\ { run.allMasterRows[i].invoiceNumber : i \in 1..2 } = {"INV1", "INV2"}
\* the steps from one phase of a run to the next: loading (the four reads
\* and the filters), matching (the ledger read, the rows, the
\* post-processing), saving, and the return or the throw
PhaseSteps ==
    { <<"idle", "loading">>, <<"loading", "matching">>, <<"matching", "saving">>,
      <<"saving", "done">>, <<"done", "idle">>,
      <<"loading", "failed">>, <<"saving", "failed">>, <<"failed", "idle">> }

\* C21: within a run the phases follow each other in the order load and
\* filter, load ledger and match and post-process, persist; the inputs of
\* the matching are the four inputs as loaded, no phase is entered twice,
\* and the ledger is written at most once, by the step that leaves the
\* saving phase, with the rows as they were computed
PhaseOrdering ==
    [][ /\ pc' /= pc => <<pc, pc'>> \in PhaseSteps
        /\ runs' /= runs => pc = "idle"
        /\ pc = "matching" =>
             /\ run'.attendance = run.attendance
             /\ run'.payments = run.payments
             /\ run'.rules = run.rules
             /\ run'.discounts = run.discounts
        /\ pc \in {"saving", "done", "failed"} => run'.allMasterRows = run.allMasterRows
        /\ sheets' /= sheets =>
             /\ pc = "saving" /\ pc' = "done"
             /\ ~run.wrote /\ run'.wrote
             /\ sheets' = writeSheet(MASTER_SHEET, saveMasterData(run.allMasterRows))
        /\ (run /= NoResult /\ run.wrote) => sheets' = sheets ]_vars

\* the second run of a behaviour has written the ledger after a first run
\* that failed in its write
PhaseOrderingWitness ==
    /\ pc = "done"
    /\ runs = 2
    /\ run.wrote
    /\ last /= NoResult
    /\ last.error /= ""
    /\ Len(readSheet(MASTER_SHEET)) > 0
\* C24: the ledger a run has saved, read back with loadExistingMasterData,
\* holds row by row the uniqueKey, the createdAt and the updatedAt that were
\* saved
LedgerRoundTrip ==
    (pc = "done" /\ run.wrote)
    => /\ Len(loadExistingMasterData) = Len(run.allMasterRows)
       /\ \A i \in 1..Len(run.allMasterRows) :
             /\ loadExistingMasterData[i].uniqueKey = run.allMasterRows[i].uniqueKey
             /\ loadExistingMasterData[i].createdAt = run.allMasterRows[i].createdAt
             /\ loadExistingMasterData[i].updatedAt = run.allMasterRows[i].updatedAt
\* a manual request was answered with success and no other write came
\* between its load of the ledger and its save
ManualServed == fout /= NoResult /\ fout.status = 200 /\ fout.before = fout.loaded

\* the row of the sheet with the verification of the request in it
ManuallyVerified(row, body, updatedAt) ==
    [row EXCEPT !["Verification Status"] = "Verified",
                !["Invoice #"] = body.invoiceNumber,
                !["UpdatedAt"] = updatedAt]

\* C23: a manual request for a key that the persisted ledger holds sets the
\* row of the key to 'Verified' with the invoice number of the request and
\* leaves every other row, every other field of the row but updatedAt, and
\* the number of rows as they were
ManualVerification ==
    (ManualServed /\ fout.body.uniqueKey \in PersistedKeys(fout.loaded))
    => /\ Len(fout.written) = Len(fout.loaded)
       /\ \A i \in 1..Len(fout.loaded) :
             IF fout.loaded[i]["UniqueKey"] = fout.body.uniqueKey
             THEN fout.written[i] = ManuallyVerified(fout.loaded[i], fout.body,
                                                     fout.written[i]["UpdatedAt"])
             ELSE fout.written[i] = fout.loaded[i]
\* the step is a write of the ledger by an operation that loaded the ledger
\* as it is now: no other operation wrote between its load and its write
SerializedWrite ==
    /\ sheets' /= sheets
    /\ IF fin /= NoResult /\ fin' = NoResult
       THEN fin.loaded = readSheet(MASTER_SHEET)
       ELSE run.loaded = readSheet(MASTER_SHEET)

\* C22: runs and manual requests take no lock; when the operations are
\* serialized, so that each writes over the ledger it loaded, no row that
\* one operation persisted is lost by the next: every key of the ledger
\* before the write is a key of the ledger after it
SerializedKeepsRows ==
    [][ SerializedWrite
        => PersistedKeys(readSheet(MASTER_SHEET)) \subseteq PersistedKeys(sheets'[MASTER_SHEET])
      ]_vars
\* C25: a run never removes a ledger row: every key the ledger held when
\* the run started is a key of the ledger when the run has ended, and the
\* ledger has at least as many rows as before
NoRowRemoved ==
    pc = "done"
    => /\ PersistedKeys(run.before) \subseteq PersistedKeys(readSheet(MASTER_SHEET))
       /\ Len(readSheet(MASTER_SHEET)) >= Len(run.before)
\* the unique key of the attendance record a ledger row was built from
KeyOfRow(row) ==
    generateUniqueKey(AttendanceOf(row.customerName, row.eventStartsAt, row.membershipName,
                                   "", row.instructors, ""))

\* C26: the rows a run returns and persists hold at most one row per unique
\* key: no two rows carry the same uniqueKey, and no two rows are rows of
\* the same attendance key
KeyUniqueness ==
    Computed
    => \A i, j \in 1..Len(run.allMasterRows) :
          i /= j => /\ run.allMasterRows[i].uniqueKey /= run.allMasterRows[j].uniqueKey
                    /\ KeyOfRow(run.allMasterRows[i]) /= KeyOfRow(run.allMasterRows[j])

\* the rows a run returns carry pairwise different uniqueKey fields
StoredKeysDiffer ==
    Computed
    => \A i, j \in 1..Len(run.allMasterRows) :
          i /= j => run.allMasterRows[i].uniqueKey /= run.allMasterRows[j].uniqueKey
\* the attendance record of the sheet that a ledger row was built from
RecordOfRow(row) ==
    LET at == FirstIndex({ i \in 1..Len(readSheet(ATTENDANCE_SHEET)) :
                             generateUniqueKey(readSheet(ATTENDANCE_SHEET)[i]) = KeyOfRow(row) })
    IN  readSheet(ATTENDANCE_SHEET)[at]

\* the four percentages that apply to a ledger row: those of the rule of
\* its record, or the defaults of its category
PercentagesOfRow(row) ==
    IF RuleOfRecord(RecordOfRow(row)) = Null
    THEN DefaultPercentages(classifySessionType(GetS(RecordOfRow(row), "Offering Type Name")))
    ELSE [coach |-> RuleOfRecord(RecordOfRow(row)).coach_percentage,
          bgm |-> RuleOfRecord(RecordOfRow(row)).bgm_percentage,
          management |-> RuleOfRecord(RecordOfRow(row)).management_percentage,
          mfc |-> RuleOfRecord(RecordOfRow(row)).mfc_percentage]

\* the four amounts of the row are the split of its discounted session price
SplitOfDiscountedPrice(row, pct) ==
    /\ row.coachAmount = round2(PercentOf(row.discountedSessionPrice, pct.coach))
    /\ row.bgmAmount = round2(PercentOf(row.discountedSessionPrice, pct.bgm))
    /\ row.managementAmount = round2(PercentOf(row.discountedSessionPrice, pct.management))
    /\ row.mfcAmount = round2(PercentOf(row.discountedSessionPrice, pct.mfc))

\* C27: in every row of the result of a run, each of the four amounts is
\* the discounted session price of the row times the percentage over 100,
\* rounded to two decimals as the code rounds, so that a discount enters
\* the amounts once
SplitConsistency ==
    Computed
    => \A i \in 1..Len(run.allMasterRows) :
          SplitOfDiscountedPrice(run.allMasterRows[i], PercentagesOfRow(run.allMasterRows[i]))
\* the records of the attendance sheet that a run passes to the loop
RecordsOfRun ==
    filterAttendanceByDate(run.attendance, run.params.fromDate, run.params.toDate)

\* the payments that a run passes to every record of the loop
PaymentsOfRun ==
    filterPaymentsByDate(run.payments, run.params.fromDate, run.params.toDate)

\* the payment selected for a record among all payments of the run
SelectedFor(record) == findMatchingPayment(record, PaymentsOfRun, run.rules)

\* the run has built the row of the record
ProcessedInRun(record) ==
    \E k \in 1..Len(run.processed) : run.processed[k] = generateUniqueKey(record)

\* the result of the run holds a row of the key of the record that is
\* verified by the payment
VerifiedBy(record, payment) ==
    \E i \in 1..Len(run.allMasterRows) :
        /\ run.allMasterRows[i].uniqueKey = generateUniqueKey(record)
        /\ run.allMasterRows[i].verificationStatus = "Verified"
        /\ run.allMasterRows[i].invoiceNumber = GetS(payment, "Invoice")
        /\ run.allMasterRows[i].amount = FloatOf(GetS(payment, "Amount"))

\* C28: a payment is not used up by a match: every record processed in a
\* run is matched against all payments of the run, and each record for
\* which a payment is selected has a row that is 'Verified' with the
\* invoice number and the amount of that payment, whatever other records
\* the same payment was selected for
PaymentsNotConsumed ==
    Computed
    => \A i \in 1..Len(RecordsOfRun) :
          (/\ ProcessedInRun(RecordsOfRun[i])
           /\ SelectedFor(RecordsOfRun[i]) /= NoPayment)
          => VerifiedBy(RecordsOfRun[i], PaymentsOfRun[SelectedFor(RecordsOfRun[i])])

\* one run has selected one payment for two visits of different keys, and
\* both rows are verified by it
PaymentsNotConsumedWitness ==
    /\ Computed
    /\ \E i, j \in 1..Len(RecordsOfRun) :
          /\ generateUniqueKey(RecordsOfRun[i]) /= generateUniqueKey(RecordsOfRun[j])
          /\ ProcessedInRun(RecordsOfRun[i])
          /\ ProcessedInRun(RecordsOfRun[j])
          /\ SelectedFor(RecordsOfRun[i]) /= NoPayment
          /\ SelectedFor(RecordsOfRun[i]) = SelectedFor(RecordsOfRun[j])
          /\ VerifiedBy(RecordsOfRun[i], PaymentsOfRun[SelectedFor(RecordsOfRun[i])])
          /\ VerifiedBy(RecordsOfRun[j], PaymentsOfRun[SelectedFor(RecordsOfRun[j])])
\* a forced run has computed its result from the ledger that a served
\* manual request for a key of the ledger wrote, and has built the row of
\* that key again
ForcedAfterManual ==
    /\ Computed
    /\ run.params.forceReverify
    /\ ManualServed
    /\ fout.body.uniqueKey \in PersistedKeys(fout.loaded)
    /\ run.loaded = fout.written
    /\ \E k \in 1..Len(run.processed) : run.processed[k] = fout.body.uniqueKey

\* the ledger that the run loaded holds the row of the visit as the manual
\* request set it
ManualValuesLoaded ==
    \E i \in 1..Len(run.existingMaster) :
        /\ KeyOfRow(run.existingMaster[i]) = fout.body.uniqueKey
        /\ run.existingMaster[i].verificationStatus = "Verified"
        /\ run.existingMaster[i].invoiceNumber = fout.body.invoiceNumber

\* the status and the invoice number of the row are those of the automatic
\* match of the record
AutomaticResult(row, record) ==
    IF SelectedFor(record) = NoPayment
    THEN row.verificationStatus = "Not Verified" /\ row.invoiceNumber = ""
    ELSE /\ row.verificationStatus = "Verified"
         /\ row.invoiceNumber = GetS(PaymentsOfRun[SelectedFor(record)], "Invoice")

\* the row of the key of the request in the result of the run is the
\* result of the automatic match
RebuiltFromMatching ==
    \A i \in 1..Len(run.allMasterRows) :
        run.allMasterRows[i].uniqueKey = fout.body.uniqueKey
        => AutomaticResult(run.allMasterRows[i], RecordOfRow(run.allMasterRows[i]))

ForcedRunRebuilds == ForcedAfterManual => RebuiltFromMatching
\* C30: at the end of every successful run the rows returned to the caller
\* are the content of the persisted ledger: the run wrote the returned
\* rows, or it wrote nothing and the returned rows are the ledger as the
\* run loaded it
ReturnedEqualsPersisted ==
    pc = "done"
    => IF run.wrote
       THEN readSheet(MASTER_SHEET) = saveMasterData(run.allMasterRows)
       ELSE /\ readSheet(MASTER_SHEET) = run.loaded
            /\ run.allMasterRows = run.existingMaster

\* a weaker statement for a run that wrote nothing: every returned row is
\* a row of the ledger as the run loaded it
ReturnedRowsAreLoadedRows ==
    (pc = "done" /\ ~run.wrote)
    => \A i \in 1..Len(run.allMasterRows) :
          \E j \in 1..Len(run.existingMaster) :
              run.allMasterRows[i] = run.existingMaster[j]

====
